---- MODULE Spec2Model ----
(***************************************************************************)
(* Model of the rustyx routing core (src/src/router.rs), of the way the    *)
(* application facade (src/src/app.rs) drives it, of the rate limiter      *)
(* (src/src/middleware/rate_limit.rs), of upload validation                *)
(* (src/src/upload.rs), of the static file handler                         *)
(* (src/src/static_files.rs) and of the WebSocket registry                 *)
(* (src/src/websocket.rs).                                                 *)
(*                                                                         *)
(* Strings are sequences of one-character strings, so that string          *)
(* concatenation (format!("{}{}", prefix, path)), the character loop of    *)
(* convert_express_params and the matching of a request path are computed  *)
(* the way the code computes them.                                         *)
(*                                                                         *)
(* The per-method table is a matchit::Router (an external crate, 0.8       *)
(* syntax: "{name}" parameters).  It is modelled by the set of routes it   *)
(* holds, with insert and at computed from the crate's contract: insert    *)
(* rejects a malformed route and a route whose shape is already present,   *)
(* at returns the matching route that prefers static text over a parameter *)
(* at the first place where two candidates differ.                         *)
(***************************************************************************)
EXTENDS Integers, Sequences, FiniteSets

VARIABLES
  main,        \* the destination router (RustyX.router, or a Router with a prefix)
  other,       \* a second router, built to be mounted into main
  otherState,  \* "none" before other is built, "built", "moved" once mounted
  registered,  \* the registrations made so far: handler h is registered[h]
  lastOp,      \* the last call made, with the routers as they were before it
  call,        \* the function called on its own, with its arguments
  result,      \* what that call returned
  middleware_stack,  \* RustyX.middleware_stack: the middleware pushed so far
  lock,        \* the RwLock around RustyX.router: who holds it
  pc,          \* where each thread of the application is in its call
  request,     \* the request each serving thread is handling
  response,    \* what each serving thread answered and whom it invoked
  rate_config, \* RateLimiter.config: max_requests and window
  entries,     \* RateLimiter.entries: key -> RateLimitEntry
  now,         \* Instant::now()
  granted,     \* per key, the Allowed answers given in its current window
  checks,      \* per key, the checks made in its current window
  lastCheck,   \* the last check: its key, its answer, its instant and the
               \* entries before it
  gate,        \* the last request given to the rate_limiter middleware
  connections, \* WsServer.connections: the ids that have a sender
  rooms,       \* WsServer.rooms: room name -> the members of the WsRoom
  wsLock,      \* the RwLocks of connections, of rooms and of each room's members
  ws,          \* the WsServer call each thread is making, and where it is
  returned     \* the unregister that has just returned, with the server as
               \* it was when the call was made

routerVars == <<main, other, otherState, registered, lastOp>>

harnessVars == <<call, result>>

appVars == <<middleware_stack, lock, pc, request, response>>

limiterVars == <<rate_config, entries, now, granted, checks, lastCheck, gate>>

wsVars == <<connections, rooms, wsLock, ws, returned>>

vars == <<routerVars, harnessVars, appVars, limiterVars, wsVars>>

-----------------------------------------------------------------------------
(* Bounds and input alphabets                                              *)

\* Number of handlers (route registrations) a behaviour may create.
MaxHandlers == 3

\* Longest sequence of registrations a group's configure callback makes.
MaxConfigure == 1

\* Longest pattern given to convert_express_params on its own.
MaxPattern == 4

\* Most segments of a path requested from the static file handler.
MaxSegments == 3

\* Number of middleware functions a behaviour may add.
MaxMiddleware == 2

\* Instants are counted in ticks: the number of ticks in a second.
TicksPerSecond == 2

\* Latest instant, in ticks, at which the rate limiter is called.
MaxTime == 3

\* A key is not checked again once its count has reached this number,
\* unless the count is near the end of its range.
MaxCount == 3

Methods == {"GET", "POST"}

\* Characters for which char::is_alphanumeric() || c == '_' holds.
IdentChars == {"a", "b", "c", "g", "i", "j", "k", "p", "1", "_"}

\* Characters of the patterns converted on their own: the separator, the
\* marker, a letter, a digit, the underscore and a character that is none
\* of these.
PatternChars == {"/", ":", "a", "1", "_", "-"}

\* The strings of at most n characters of chars.
Strings(chars, n) == UNION { [1..k -> chars] : k \in 0..n }

\* Prefixes of the routers built with Router::new and with_prefix: "", "/:k".
Prefixes == { <<>>, <<"/", ":", "k">> }

\* Prefixes given to mount: "", "/g".
MountPrefixes == { <<>>, <<"/", "g">> }

\* Prefixes given to group: "/g".
GroupPrefixes == { <<"/", "g">> }

\* Paths supplied to add_route: "/a", "/:i", "/a/b".
Paths ==
  { <<"/", "a">>,
    <<"/", ":", "i">>,
    <<"/", "a", "/", "b">> }

\* Paths supplied to add_route where the edge cases of the pattern syntax
\* are looked at: "/a", "/a/", "/:", "/:i".
EdgePaths ==
  { <<"/", "a">>,
    <<"/", "a", "/">>,
    <<"/", ":">>,
    <<"/", ":", "i">> }

\* Paths supplied to add_route where parameter names are looked at: "/:i",
\* "/:j", "/:i/b", "/:j/b".
NamePaths ==
  { <<"/", ":", "i">>,
    <<"/", ":", "j">>,
    <<"/", ":", "i", "/", "b">>,
    <<"/", ":", "j", "/", "b">> }

-----------------------------------------------------------------------------
(* String helpers                                                          *)

\* Index of the first occurrence of character c in s at or after i,
\* Len(s) + 1 when there is none.
RECURSIVE IndexFrom(_, _, _)
IndexFrom(s, c, i) ==
  IF i > Len(s) THEN Len(s) + 1
  ELSE IF s[i] = c THEN i
  ELSE IndexFrom(s, c, i + 1)

\* str::split('/'): the pieces between the slashes, empty pieces included.
RECURSIVE SplitFrom(_, _)
SplitFrom(s, i) ==
  LET e == IndexFrom(s, "/", i)
  IN  IF e > Len(s) THEN << SubSeq(s, i, Len(s)) >>
      ELSE << SubSeq(s, i, e - 1) >> \o SplitFrom(s, e + 1)

Split(s) == SplitFrom(s, 1)

\* The path made of the segments segs, a slash before each.
RECURSIVE Join(_)
Join(segs) == IF segs = <<>> THEN <<>> ELSE <<"/">> \o Head(segs) \o Join(Tail(segs))

-----------------------------------------------------------------------------
(* convert_express_params (router.rs 176-197)                              *)

\* An inner loop that stops at an underscore.
RECURSIVE TakeIdent_NoUnderscore(_, _)
TakeIdent_NoUnderscore(s, i) ==
  IF i <= Len(s) /\ s[i] \in IdentChars \ {"_"}
  THEN TakeIdent_NoUnderscore(s, i + 1) ELSE i

\* The inner loop: index just after the run of identifier characters that
\* starts at i.
RECURSIVE TakeIdent(_, _)
TakeIdent(s, i) ==
  IF i <= Len(s) /\ s[i] \in IdentChars THEN TakeIdent(s, i + 1) ELSE i

\* The outer loop from position i.
RECURSIVE ConvertFrom(_, _)
ConvertFrom(s, i) ==
  IF i > Len(s) THEN <<>>
  ELSE IF s[i] = ":"
       THEN LET j == TakeIdent(s, i + 1)
            IN  <<"{">> \o SubSeq(s, i + 1, j - 1) \o <<"}">> \o ConvertFrom(s, j)
       ELSE << s[i] >> \o ConvertFrom(s, i + 1)

\* A conversion that copies a ':' with no identifier after it as it is.
RECURSIVE ConvertFrom_ColonKept(_, _)
ConvertFrom_ColonKept(s, i) ==
  IF i > Len(s) THEN <<>>
  ELSE IF s[i] = ":" /\ TakeIdent(s, i + 1) > i + 1
       THEN LET j == TakeIdent(s, i + 1)
            IN  <<"{">> \o SubSeq(s, i + 1, j - 1) \o <<"}">> \o ConvertFrom_ColonKept(s, j)
       ELSE << s[i] >> \o ConvertFrom_ColonKept(s, i + 1)

convert_express_params_ColonKept(path) == ConvertFrom_ColonKept(path, 1)

convert_express_params(path) == ConvertFrom(path, 1)

-----------------------------------------------------------------------------
(* matchit::Router<RouteHandler>: the table of one method                  *)
(* A table is the set of routes inserted so far, each [route, value].      *)

MatchitRouter_new == {}

\* One path segment of a route is well formed when it holds no parameter,
\* or exactly one "{name}" with a non-empty name (InsertError otherwise).
ValidSegment(seg) ==
  LET opens  == { i \in 1..Len(seg) : seg[i] = "{" }
      closes == { i \in 1..Len(seg) : seg[i] = "}" }
  IN  \/ opens = {} /\ closes = {}
      \/ /\ Cardinality(opens) = 1
         /\ Cardinality(closes) = 1
         /\ \A o \in opens : \A c \in closes : o + 1 < c

ValidRoute(route) ==
  LET segs == Split(route)
  IN  \A n \in 1..Len(segs) : ValidSegment(segs[n])

\* The shape of a route: its text with every parameter name removed.  Two
\* routes of the same shape cannot both be stored (InsertError::Conflict).
RECURSIVE ShapeFrom(_, _)
ShapeFrom(route, i) ==
  IF i > Len(route) THEN <<>>
  ELSE IF route[i] = "{"
       THEN <<"{", "}">> \o ShapeFrom(route, IndexFrom(route, "}", i) + 1)
       ELSE << route[i] >> \o ShapeFrom(route, i + 1)

Shape(route) == ShapeFrom(route, 1)

\* An insert that replaces the value of a route of the same shape.
insert_Overwrite(table, route, value) ==
  IF ~ValidRoute(route) THEN [ok |-> FALSE, table |-> table]
  ELSE [ok |-> TRUE,
        table |-> { e \in table : Shape(e.route) # Shape(route) }
                    \cup { [route |-> route, value |-> value] }]

\* An insert that loses the routes of the table when it fails.
insert_ClearOnError(table, route, value) ==
  IF ~ValidRoute(route) \/ \E e \in table : Shape(e.route) = Shape(route)
  THEN [ok |-> FALSE, table |-> {}]
  ELSE [ok |-> TRUE,
        table |-> table \cup { [route |-> route, value |-> value] }]

\* An insert for which two routes conflict only when they are the same
\* text, parameter names included.
insert_NamesTellApart(table, route, value) ==
  IF ~ValidRoute(route) THEN [ok |-> FALSE, table |-> table]
  ELSE IF \E e \in table : e.route = route
       THEN [ok |-> FALSE, table |-> table]
       ELSE [ok |-> TRUE,
             table |-> table \cup { [route |-> route, value |-> value] }]

\* Router::insert(route, value): Err leaves the table as it was.
insert(table, route, value) ==
  IF ~ValidRoute(route) THEN [ok |-> FALSE, table |-> table]
  ELSE IF \E e \in table : Shape(e.route) = Shape(route)
       THEN [ok |-> FALSE, table |-> table]
       ELSE [ok |-> TRUE,
             table |-> table \cup { [route |-> route, value |-> value] }]

NoMatch == [ok |-> FALSE, params |-> <<>>, kinds |-> <<>>]

\* Match route from position i against path from position k.  A parameter
\* takes the non-empty rest of the path segment; any other character must
\* be equal.  params lists (name, value) in route order, kinds tells for
\* each consumed path character whether static text (0) or a parameter (1)
\* consumed it.
RECURSIVE MatchFrom(_, _, _, _)
MatchFrom(route, i, path, k) ==
  IF i > Len(route)
  THEN IF k > Len(path) THEN [ok |-> TRUE, params |-> <<>>, kinds |-> <<>>]
       ELSE NoMatch
  ELSE IF route[i] = "{"
  THEN LET close == IndexFrom(route, "}", i)
           name  == SubSeq(route, i + 1, close - 1)
           e     == IndexFrom(path, "/", k)
       IN  IF e = k \/ k > Len(path) THEN NoMatch
           ELSE LET rest == MatchFrom(route, close + 1, path, e)
                IN  IF rest.ok
                    THEN [ok     |-> TRUE,
                          params |-> << <<name, SubSeq(path, k, e - 1)>> >> \o rest.params,
                          kinds  |-> [n \in 1..(e - k) |-> 1] \o rest.kinds]
                    ELSE NoMatch
  ELSE IF k <= Len(path) /\ path[k] = route[i]
  THEN LET rest == MatchFrom(route, i + 1, path, k + 1)
       IN  IF rest.ok
           THEN [ok |-> TRUE, params |-> rest.params, kinds |-> <<0>> \o rest.kinds]
           ELSE NoMatch
  ELSE NoMatch

\* A matcher that stops at the end of the route and ignores what is left
\* of the path.
Match_TrailingIgnored(route, path) ==
  LET ends == { n \in 0..Len(path) : MatchFrom(route, 1, SubSeq(path, 1, n), 1).ok }
  IN  IF ends = {} THEN NoMatch
      ELSE MatchFrom(route, 1, SubSeq(path, 1, CHOOSE n \in ends : TRUE), 1)

\* A matcher that strips one trailing slash from the route and from the
\* path before it compares them.
Match_SlashNormalised(route, path) ==
  LET strip(x) == IF Len(x) > 1 /\ x[Len(x)] = "/" THEN SubSeq(x, 1, Len(x) - 1) ELSE x
  IN  MatchFrom(strip(route), 1, strip(path), 1)

Match(route, path) == MatchFrom(route, 1, path, 1)

\* Static text is tried before a parameter at every node of the tree, with
\* backtracking: of two matching routes the one that is static at the first
\* path position where they differ is found first.
RECURSIVE Before_ParamFirst(_, _, _)
Before_ParamFirst(k1, k2, n) ==
  IF n > Len(k1) \/ n > Len(k2) THEN FALSE
  ELSE IF k1[n] # k2[n] THEN k1[n] > k2[n]
  ELSE Before_ParamFirst(k1, k2, n + 1)

RECURSIVE Before(_, _, _)
Before(k1, k2, n) ==
  IF n > Len(k1) \/ n > Len(k2) THEN FALSE
  ELSE IF k1[n] # k2[n] THEN k1[n] < k2[n]
  ELSE Before(k1, k2, n + 1)

\* Router::at(path): the match of highest priority, or Err(NotFound).
at(table, path) ==
  LET found == [e \in table |-> Match(e.route, path)]
      hits  == { e \in table : found[e].ok }
  IN  IF hits = {} THEN [ok |-> FALSE, value |-> 0, params |-> <<>>]
      ELSE LET best == CHOOSE e \in hits :
                         \A f \in hits \ {e} :
                           Before(found[e].kinds, found[f].kinds, 1)
           IN  [ok |-> TRUE, value |-> best.value,
                params |-> found[best].params]

-----------------------------------------------------------------------------
(* Router (router.rs 21-167)                                               *)

\* Router::new / Router::with_prefix: no table for any method.
with_prefix(prefix) == [prefix |-> prefix, routes |-> <<>>]

Router_new == with_prefix(<<>>)

\* self.routes.entry(method).or_insert_with(MatchitRouter::new)
EntryOrInsert(routes, method, table) ==
  [m \in (DOMAIN routes) \cup {method} |->
     IF m \in DOMAIN routes THEN routes[m] ELSE table]

\* A registration that leaves the prefix out of the pattern.
add_route_NoPrefix(self, method, path, handler) ==
  LET routes         == EntryOrInsert(self.routes, method, MatchitRouter_new)
      converted_path == convert_express_params(path)
      res            == insert(routes[method], converted_path, handler)
  IN  [self EXCEPT !.routes = [routes EXCEPT ![method] = res.table]]

\* Router::add_route: the method's table is created before the insert, and
\* a failed insert is only logged.
add_route(self, method, path, handler) ==
  LET full_path      == self.prefix \o path
      routes         == EntryOrInsert(self.routes, method, MatchitRouter_new)
      converted_path == convert_express_params(full_path)
      res            == insert(routes[method], converted_path, handler)
  IN  [self EXCEPT !.routes = [routes EXCEPT ![method] = res.table]]

None == [found |-> FALSE, handler |-> 0, params |-> <<>>]

Some(handler, params) == [found |-> TRUE, handler |-> handler, params |-> params]

\* The pairs collected with key and value exchanged.
CollectParams_Swapped(pairs) ==
  [value \in { pairs[n][2] : n \in 1..Len(pairs) } |->
     LET n == CHOOSE k \in 1..Len(pairs) : pairs[k][2] = value
     IN  pairs[n][1]]

\* .collect::<HashMap<String, String>>() of the (name, value) pairs: a later
\* pair replaces an earlier one of the same name.
CollectParams(pairs) ==
  LET names == { pairs[n][1] : n \in 1..Len(pairs) }
  IN  [name \in names |->
         LET last == CHOOSE n \in 1..Len(pairs) :
                       /\ pairs[n][1] = name
                       /\ \A q \in 1..Len(pairs) : pairs[q][1] = name => q <= n
         IN  pairs[last][2]]

\* A lookup that searches the table of every method.
find_route_AnyMethod(self, method, path) ==
  LET found == { m \in DOMAIN self.routes : at(self.routes[m], path).ok }
  IN  IF found = {} THEN None
      ELSE LET m       == CHOOSE x \in found : TRUE
               matched == at(self.routes[m], path)
           IN  Some(matched.value, CollectParams(matched.params))

\* Router::find_route
find_route(self, method, path) ==
  IF method \in DOMAIN self.routes
  THEN LET matched == at(self.routes[method], path)
       IN  IF matched.ok
           THEN Some(matched.value, CollectParams(matched.params))
           ELSE None
  ELSE None

\* A mount in which the table of other replaces the table self has.
mount_LastWriterWins(self, prefix, other_router) ==
  [self EXCEPT !.routes =
     [m \in (DOMAIN self.routes) \cup (DOMAIN other_router.routes) |->
        IF m \in DOMAIN other_router.routes
        THEN other_router.routes[m] ELSE self.routes[m]]]

\* Router::mount: the prefix argument is not used; each method's table of
\* other is moved into self unless self already has a table for the method.
mount(self, prefix, other_router) ==
  [self EXCEPT !.routes =
     [m \in (DOMAIN self.routes) \cup (DOMAIN other_router.routes) |->
        IF m \in DOMAIN self.routes THEN self.routes[m] ELSE other_router.routes[m]]]

\* The configure callback of group, run on the child router: a sequence of
\* registrations [method, path], the n-th with handler first + n - 1.
RECURSIVE configure_run(_, _, _)
configure_run(child, configure, first) ==
  IF configure = <<>> THEN child
  ELSE configure_run(
         add_route(child, Head(configure).method, Head(configure).path, first),
         Tail(configure), first + 1)

\* A child router that is given the group's prefix without the parent's.
group_router_NoParentPrefix(self, prefix, configure, first) ==
  configure_run(with_prefix(prefix), configure, first)

\* The child router of group after configure has run.
group_router(self, prefix, configure, first) ==
  configure_run(with_prefix(self.prefix \o prefix), configure, first)

\* A group that adds the child's routes to the table the parent has.
group_MergeTables(self, prefix, configure, first) ==
  LET child == group_router(self, prefix, configure, first)
  IN  [self EXCEPT !.routes =
         [m \in (DOMAIN self.routes) \cup (DOMAIN child.routes) |->
            (IF m \in DOMAIN self.routes THEN self.routes[m] ELSE {})
            \cup (IF m \in DOMAIN child.routes THEN child.routes[m] ELSE {})]]

\* Router::group
group(self, prefix, configure, first) ==
  LET child == group_router(self, prefix, configure, first)
  IN  [self EXCEPT !.routes =
         [m \in (DOMAIN self.routes) \cup (DOMAIN child.routes) |->
            IF m \in DOMAIN self.routes THEN self.routes[m] ELSE child.routes[m]]]

\* The handlers a router holds.
Held(router) ==
  UNION { { e.value : e \in router.routes[m] } : m \in DOMAIN router.routes }

-----------------------------------------------------------------------------
(* Uploader::validate (upload.rs 375-408)                                  *)

\* str::to_lowercase, on the letters used here.
LowerChar(c) ==
  CASE c = "P" -> "p"
    [] c = "N" -> "n"
    [] c = "G" -> "g"
    [] c = "J" -> "j"
    [] OTHER   -> c

to_lowercase(str) == [i \in 1..Len(str) |-> LowerChar(str[i])]

\* Extensions of uploaded files and of UploadConfig.allowed_extensions: "",
\* "png", "PNG", "Png", "jpg".
Extensions ==
  { <<>>, <<"p", "n", "g">>, <<"P", "N", "G">>, <<"P", "n", "g">>, <<"j", "p", "g">> }

\* MIME types of uploaded files.
MimeTypes == {"image/png", "image/jpeg", "IMAGE/PNG"}

\* Sizes of uploaded files, in bytes.
FileSizes == {0, 500, 1024, 1025, 2000}

\* UploadConfig: the fields validate reads.  allowed_extensions is a public
\* field: the builder stores lower-cased entries, a direct assignment may
\* store any.  The Vecs are read with any(), so only their elements count.
UploadConfigs ==
  [max_file_size      : {0, 1024},
   allowed_types      : SUBSET {"image/png", "image/jpeg"},
   allowed_extensions : SUBSET { <<"p", "n", "g">>, <<"P", "N", "G">> }]

Ok == [ok |-> TRUE, error |-> "none"]

FileTooLarge(max, actual) ==
  [ok |-> FALSE, error |-> "FileTooLarge", max |-> max, actual |-> actual]

TypeNotAllowed(mimetype) ==
  [ok |-> FALSE, error |-> "TypeNotAllowed", mimetype |-> mimetype]

ExtensionNotAllowed(extension) ==
  [ok |-> FALSE, error |-> "ExtensionNotAllowed", extension |-> extension]

\* A validation that checks the MIME type before the size.
validate_TypeBeforeSize(config, mimetype, extension, size) ==
  IF config.allowed_types # {} /\ mimetype \notin config.allowed_types
  THEN TypeNotAllowed(mimetype)
  ELSE IF size > config.max_file_size
  THEN FileTooLarge(config.max_file_size, size)
  ELSE IF /\ config.allowed_extensions # {}
          /\ ~\E e \in config.allowed_extensions : e = to_lowercase(extension)
  THEN ExtensionNotAllowed(extension)
  ELSE Ok

\* Uploader::validate
validate(config, mimetype, extension, size) ==
  IF size > config.max_file_size
  THEN FileTooLarge(config.max_file_size, size)
  ELSE IF /\ config.allowed_types # {}
          /\ ~\E t \in config.allowed_types : t = mimetype
  THEN TypeNotAllowed(mimetype)
  ELSE IF /\ config.allowed_extensions # {}
          /\ ~\E e \in config.allowed_extensions : e = to_lowercase(extension)
  THEN ExtensionNotAllowed(extension)
  ELSE Ok

-----------------------------------------------------------------------------
(* static_handler (static_files.rs 149-206)                                *)
(* A Path is [absolute, comps]: whether it starts at the root directory,   *)
(* and its components, ".." kept as a component as Path::components does.  *)

\* str::trim_start_matches(c) for a character c.
RECURSIVE trim_start_char(_, _)
trim_start_char(str, c) ==
  IF str # <<>> /\ Head(str) = c THEN trim_start_char(Tail(str), c) ELSE str

\* str::trim_start_matches(pat) for a string pat.
RECURSIVE trim_start_matches(_, _)
trim_start_matches(str, pat) ==
  IF Len(str) >= Len(pat) /\ SubSeq(str, 1, Len(pat)) = pat
  THEN trim_start_matches(SubSeq(str, Len(pat) + 1, Len(str)), pat)
  ELSE str

NonEmpty(piece) == piece # <<>>

\* Path::components of the path written str: repeated and trailing
\* separators give no component.
components(str) ==
  [absolute |-> str # <<>> /\ str[1] = "/",
   comps    |-> SelectSeq(Split(str), NonEmpty)]

\* Path::join(str): an absolute str replaces the path.
join(path, str) ==
  IF components(str).absolute THEN components(str)
  ELSE [path EXCEPT !.comps = path.comps \o components(str).comps]

\* Path::starts_with: base's components are the first components of path.
starts_with(path, base) ==
  /\ path.absolute = base.absolute
  /\ Len(base.comps) <= Len(path.comps)
  /\ SubSeq(path.comps, 1, Len(base.comps)) = base.comps

\* The file system the handler runs on: the working directory /srv, the
\* directories /, /srv and /srv/pub, and the files /srv/pub/a,
\* /srv/pub/index, /srv/a, /srv/index and /a.
Cwd == << <<"s", "r", "v">> >>

Dirs ==
  { <<>>,
    << <<"s", "r", "v">> >>,
    << <<"s", "r", "v">>, <<"p", "u", "b">> >> }

Files ==
  { << <<"s", "r", "v">>, <<"p", "u", "b">>, <<"a">> >>,
    << <<"s", "r", "v">>, <<"p", "u", "b">>, <<"i", "n", "d", "e", "x">> >>,
    << <<"s", "r", "v">>, <<"a">> >>,
    << <<"s", "r", "v">>, <<"i", "n", "d", "e", "x">> >>,
    << <<"a">> >> }

NoEntry == << <<"?">> >>

\* The place the operating system resolves a path to, component by
\* component from the working directory or from /: ".." goes to the parent,
\* and a component can only be taken from a directory that exists.
RECURSIVE ResolveFrom(_, _)
ResolveFrom(place, comps) ==
  IF comps = <<>> THEN place
  ELSE IF place \notin Dirs THEN NoEntry
  ELSE IF Head(comps) = <<".", ".">>
  THEN ResolveFrom(IF place = <<>> THEN <<>> ELSE SubSeq(place, 1, Len(place) - 1),
                   Tail(comps))
  ELSE ResolveFrom(place \o << Head(comps) >>, Tail(comps))

Resolve(path) == ResolveFrom(IF path.absolute THEN <<>> ELSE Cwd, path.comps)

is_dir(path) == Resolve(path) \in Dirs

\* serve_file: fs::read(path), Some(content) when the file can be read.
serve_file(path) ==
  IF Resolve(path) \in Files
  THEN [some |-> TRUE, file |-> Resolve(path)]
  ELSE [some |-> FALSE, file |-> NoEntry]

\* StaticConfig: root "pub" or "/srv/pub", index "index".
StaticConfigs ==
  [root  : { <<"p", "u", "b">>, <<"/", "s", "r", "v", "/", "p", "u", "b">> },
   index : { <<"i", "n", "d", "e", "x">> }]

\* The segments of the paths requested: "static", "..", "a" and "".
StaticSegments == { <<"s", "t", "a", "t", "i", "c">>, <<".", ".">>, <<"a">>, <<>> }

StaticPaths ==
  { Join(segs) : segs \in UNION { [1..n -> StaticSegments] : n \in 1..MaxSegments } }

Answer(status, file) == [status |-> status, file |-> file]

\* static_handler(config)(req, res)
static_handler(config, request_path) ==
  LET file_path == trim_start_matches(trim_start_char(request_path, "/"),
                                      <<"s", "t", "a", "t", "i", "c", "/">>)
      root      == components(config.root)
      full_path == join(root, file_path)
  IN  IF ~starts_with(full_path, root) THEN Answer(403, NoEntry)
      ELSE IF is_dir(full_path)
      THEN LET index_path == join(full_path, config.index)
           IN  IF serve_file(index_path).some
               THEN Answer(200, serve_file(index_path).file)
               ELSE Answer(404, NoEntry)
      ELSE IF serve_file(full_path).some
      THEN Answer(200, serve_file(full_path).file)
      ELSE Answer(404, NoEntry)

-----------------------------------------------------------------------------
(* RateLimiter (rate_limit.rs 60-122)                                      *)
(* RateLimitEntry.count is a u32.  It is kept as two 16-bit halves,        *)
(* [hi, lo] for hi * 65536 + lo, so that all of its range is there.        *)

u32(n) == [hi |-> n \div 65536, lo |-> n % 65536]

u32_MAX == [hi |-> 65535, lo |-> 65535]

\* The value of a count below 2^31.
as_int(x) == x.hi * 65536 + x.lo

\* x + 1 where it does not overflow.
u32_succ(x) ==
  IF x.lo = 65535 THEN [hi |-> x.hi + 1, lo |-> 0] ELSE [x EXCEPT !.lo = @ + 1]

\* x > y
u32_gt(x, y) == x.hi > y.hi \/ (x.hi = y.hi /\ x.lo > y.lo)

\* a - b on u32 for a and b below 2^16: whether it stays in range, and the
\* value, which is a - b + 2^32 when it does not.
u32_sub(a, b) ==
  IF a >= b THEN [ok |-> TRUE, value |-> u32(a - b)]
  ELSE [ok |-> FALSE, value |-> [hi |-> 65535, lo |-> 65536 - (b - a)]]

\* What `entry.count += 1` does at u32::MAX, and the subtraction of
\* retry_after below 0: a build with overflow checks (debug) panics, one
\* without (release) wraps.
Builds == {"checked", "wrapping"}

\* The keys checked: the IP addresses of two clients.
Keys == {"k1", "k2"}

\* A Duration: over * 2^32 seconds and ticks more.
Duration(over, ticks) == [over |-> over, ticks |-> ticks]

\* Duration::from_secs(secs)
from_secs(secs) == Duration(0, secs * TicksPerSecond)

\* d.as_secs() as u32: the whole seconds of d, cut to 32 bits.
as_secs_u32(d) == d.ticks \div TicksPerSecond

\* A window that ends only once more than the window has elapsed.
expired_After(elapsed, window) == window.over = 0 /\ elapsed > window.ticks

\* now.duration_since(entry.window_start) >= self.config.window, for an
\* elapsed time given in ticks.
expired(elapsed, window) == window.over = 0 /\ elapsed >= window.ticks

\* The windows configured: a second and a half, two seconds, and 2^32
\* seconds (RateLimiterConfig::new(n, 4294967296)).
Windows == { Duration(0, TicksPerSecond + 1), from_secs(2), Duration(1, 0) }

\* The skip_paths configured: none, or "/a".
SkipPaths == { {}, { <<"/", "a">> } }

\* RateLimiterConfig: max_requests, window and skip_paths.
LimiterConfigs ==
  [max_requests : {0, 1, 2}, window : Windows, skip_paths : SkipPaths]

Allowed(limit, remaining) ==
  [kind |-> "Allowed", limit |-> limit, remaining |-> remaining,
   retry_after |-> u32(0)]

Exceeded(retry_after, limit) ==
  [kind |-> "Exceeded", limit |-> limit, remaining |-> 0,
   retry_after |-> retry_after]

\* The call did not return: it panicked in `entry.count += 1` or in the
\* subtraction of retry_after.
Panicked ==
  [kind |-> "Panic", limit |-> 0, remaining |-> 0, retry_after |-> u32(0)]

\* RateLimiter::check(key) at instant t, the whole of it under the write
\* lock of entries: the entries it leaves, its answer, and whether it began
\* a window for the key.
check(cfg, es, key, t, build) ==
  LET inserted == IF key \in DOMAIN es THEN es[key]
                  ELSE [count |-> u32(0), window_start |-> t]
      reset    == expired(t - inserted.window_start, cfg.window)
      entry    == IF reset THEN [count |-> u32(0), window_start |-> t] ELSE inserted
      fresh    == key \notin DOMAIN es \/ reset
      put(e)   == [k \in (DOMAIN es) \cup {key} |-> IF k = key THEN e ELSE es[k]]
  IN  IF entry.count = u32_MAX /\ build = "checked"
      THEN [entries |-> put(entry), answer |-> Panicked, fresh |-> fresh]
      ELSE LET count == IF entry.count = u32_MAX THEN u32(0) ELSE u32_succ(entry.count)
               after == [entry EXCEPT !.count = count]
               retry_after ==
                 u32_sub(as_secs_u32(cfg.window),
                         (t - entry.window_start) \div TicksPerSecond)
           IN  [entries |-> put(after),
                answer  |-> IF u32_gt(count, u32(cfg.max_requests))
                            THEN IF ~retry_after.ok /\ build = "checked"
                                 THEN Panicked
                                 ELSE Exceeded(retry_after.value, cfg.max_requests)
                            ELSE Allowed(cfg.max_requests,
                                         cfg.max_requests - as_int(count)),
                fresh   |-> fresh]

\* str::starts_with(pat)
str_starts_with(str, pat) ==
  Len(pat) <= Len(str) /\ SubSeq(str, 1, Len(pat)) = pat

\* The paths requested through the middleware: "/a", "/ab", "/b".
GatePaths == { <<"/", "a">>, <<"/", "a", "b">>, <<"/", "b">> }

\* What the middleware did with a request: whether it called check and the
\* answer it got, whether it called next, and the status it answered (0
\* when the response is the one next gives, or when it panicked).
Gated(res, checked, next, status) ==
  [entries |-> res.entries, answer |-> res.answer, fresh |-> res.fresh,
   checked |-> checked, next |-> next, status |-> status]

\* A middleware that counts the request before it looks at skip_paths.
rate_limiter_CountsSkipped(cfg, es, path, ip, t, build) ==
  LET res == check(cfg, es, ip, t, build)
  IN  IF \E p \in cfg.skip_paths : str_starts_with(path, p)
      THEN Gated(res, TRUE, TRUE, 0)
      ELSE IF res.answer.kind = "Allowed" THEN Gated(res, TRUE, TRUE, 0)
      ELSE IF res.answer.kind = "Exceeded" THEN Gated(res, TRUE, FALSE, 429)
      ELSE Gated(res, TRUE, FALSE, 0)

\* The closure rate_limiter(config) returns, called with a request for
\* path from ip at instant t, up to its call of next or its 429.
rate_limiter(cfg, es, path, ip, t, build) ==
  IF \E p \in cfg.skip_paths : str_starts_with(path, p)
  THEN Gated([entries |-> es, answer |-> "none", fresh |-> FALSE], FALSE, TRUE, 0)
  ELSE LET res == check(cfg, es, ip, t, build)
       IN  IF res.answer.kind = "Allowed" THEN Gated(res, TRUE, TRUE, 0)
           ELSE IF res.answer.kind = "Exceeded" THEN Gated(res, TRUE, FALSE, 429)
           ELSE Gated(res, TRUE, FALSE, 0)

-----------------------------------------------------------------------------
(* The state machine: calls made on the routers during set-up              *)

Registrations == [method : Methods, path : Paths]

\* The callbacks given to group: up to MaxConfigure registrations.
Configures == UNION { [1..n -> Registrations] : n \in 0..MaxConfigure }

\* format!("{}{}", self.prefix, path) of each registration of a call.
FullPaths(self_prefix, configure) ==
  [n \in 1..Len(configure) |->
     [method |-> configure[n].method, full |-> self_prefix \o configure[n].path]]

\* The record of a call: its arguments, the first handler it registers and
\* the routers as they are when it is made.
Call(op, target, prefix, configure) ==
  [op |-> op, target |-> target, prefix |-> prefix, configure |-> configure,
   first |-> Len(registered) + 1, main |-> main, other |-> other]

\* The threads of an application: one that registers routes and middleware
\* on a clone of the RustyX, and the tasks serving requests.
Servers == {"s1", "s2"}

Threads == Servers \cup {"setup"}

\* What a thread is working on: for a serving task the parsed request and
\* the number of middleware functions added before it arrived, for the
\* set-up thread the route it registers (by route, or by use_router of a
\* router holding that route).
NoRequest == [op |-> "none", method |-> "none", path |-> <<>>, seen |-> 0]

\* handler_and_params of a serving task with the number of registrations
\* made when it was looked up, and the response it gave: the status, the
\* functions invoked in order, the params given to the handler.
NoResponse ==
  [lookup |-> None, routes |-> 0, status |-> 0, invoked |-> <<>>, params |-> <<>>]

\* Paths registered on the application: "/a", "/:i".
AppPaths == { <<"/", "a">>, <<"/", ":", "i">> }

\* Paths requested from the application: "/a", "/b", "/a/b".
RequestPaths == { <<"/", "a">>, <<"/", "b">>, <<"/", "a", "/", "b">> }

\* std::sync::RwLock: read() returns when no writer holds the lock.
\* Whether it also waits for a writer that is waiting depends on the
\* platform; the model admits the reader, which covers both.
can_read(l) == l.writer = "none"

\* A write() that does not wait for the readers.
can_write_IgnoringReaders(l) == l.writer = "none"

\* std::sync::RwLock: write() returns when nobody holds the lock.
can_write(l) == l.writer = "none" /\ l.readers = {}

\* A dispatch that does not hand the parameters to the handler.
dispatch_ParamsDropped(lookup) ==
  IF lookup.found
  THEN [status |-> 200, invoked |-> << <<"handler", lookup.handler>> >>,
        params |-> <<>>]
  ELSE [status |-> 404, invoked |-> <<>>, params |-> <<>>]

\* handle_request once the lookup is made: the handler found is called
\* with the params set on the request and its response (200 here) is the
\* answer; with no handler the answer is 404.  The middleware stack is not
\* read.
dispatch(lookup) ==
  IF lookup.found
  THEN [status |-> 200, invoked |-> << <<"handler", lookup.handler>> >>,
        params |-> lookup.params]
  ELSE [status |-> 404, invoked |-> <<>>, params |-> <<>>]

-----------------------------------------------------------------------------
(* WsServer and WsRoom (websocket.rs 38-183)                               *)
(* The locks are parking_lot RwLocks: a reader waits while a writer holds  *)
(* the lock or is parked waiting for it, a writer waits while anybody      *)
(* holds it.                                                               *)

\* The connection ids and the room names used.
ConnectionIds == {"c1", "c2"}

RoomNames == {"r1", "r2"}

\* The threads that call the server.
WsThreads == {"t1", "t2", "t3"}

\* The locks: connections, rooms, and the members of the room of each name.
LockNames == {"connections", "rooms"} \cup RoomNames

Unlocked == [writer |-> "none", readers |-> {}, parked |-> {}]

\* RwLock::read() returns at once.
ws_can_read(l) == l.writer = "none" /\ l.parked = {}

\* RwLock::write() returns at once.
ws_can_write(l) == l.writer = "none" /\ l.readers = {}

\* The locks once thread t has been given lock name in mode "R" or "W".
Lock(locks, t, name, mode) ==
  [locks EXCEPT ![name] =
     IF mode = "W" THEN [@ EXCEPT !.writer = t, !.parked = @ \ {t}]
     ELSE [@ EXCEPT !.readers = @ \cup {t}]]

\* The locks once thread t has dropped its guard of lock name.
Unlock(locks, t, name) ==
  [locks EXCEPT ![name] =
     [@ EXCEPT !.writer = IF @ = t THEN "none" ELSE @, !.readers = @ \ {t}]]

\* A leave that also drops the members that joined after conn_id.
WsRoom_leave_Truncate(members, conn_id) ==
  IF \E n \in 1..Len(members) : members[n] = conn_id
  THEN SubSeq(members, 1, (CHOOSE n \in 1..Len(members) : members[n] = conn_id) - 1)
  ELSE members

\* WsRoom::join: members.push(conn_id) unless members.contains(&conn_id)
WsRoom_join(members, conn_id) ==
  IF \E n \in 1..Len(members) : members[n] = conn_id
  THEN members
  ELSE Append(members, conn_id)

\* WsRoom::leave: members.retain(|id| id != conn_id)
WsRoom_leave(members, conn_id) ==
  LET keep(id) == id # conn_id
  IN  SelectSeq(members, keep)

\* rooms.entry(name).or_insert_with(|| WsRoom::new(name))
WsServer_room(rs, name) ==
  [r \in (DOMAIN rs) \cup {name} |-> IF r \in DOMAIN rs THEN rs[r] ELSE <<>>]

\* The orders in which rooms.values() may give the rooms of names.
Orders(names) ==
  { o \in [1..Cardinality(names) -> names] :
      \A i, j \in 1..Cardinality(names) : i # j => o[i] # o[j] }

\* A thread that is making no call.
WsIdle ==
  [op |-> "none", conn_id |-> "none", room_name |-> "none", pc |-> "idle",
   todo |-> <<>>, before |-> [connections |-> {}, rooms |-> <<>>]]

\* The calls that can be made with the connection ids ids and the room
\* names names.
WsCalls(ids, names) ==
  [op : {"register", "unregister", "send_to"}, conn_id : ids, room_name : {"none"}]
  \cup [op : {"broadcast"}, conn_id : {"none"}, room_name : {"none"}]
  \cup [op : {"broadcast_to_room", "room"}, conn_id : {"none"}, room_name : names]
  \cup [op : {"join_room", "leave_room"}, conn_id : ids, room_name : names]

\* No unregister has just returned.
NoReturn ==
  [op |-> "none", conn_id |-> "none", connections |-> {}, rooms |-> <<>>]

\* The lock a thread is about to ask for, and in which mode: none when its
\* next step is not a lock.
Wants(w) ==
  IF w.op = "register" /\ w.pc = "start" THEN <<"connections", "W">>
  ELSE IF w.op = "unregister" /\ w.pc = "start" THEN <<"connections", "W">>
  ELSE IF w.op = "unregister" /\ w.pc = "rooms" THEN <<"rooms", "R">>
  ELSE IF w.op = "unregister" /\ w.pc = "loop" /\ w.todo # <<>>
       THEN <<Head(w.todo), "W">>
  ELSE IF w.op \in {"send_to", "broadcast"} /\ w.pc = "start"
       THEN <<"connections", "R">>
  ELSE IF w.op = "broadcast_to_room" /\ w.pc = "start" THEN <<"rooms", "R">>
  ELSE IF w.op = "broadcast_to_room" /\ w.pc = "members" THEN <<w.room_name, "R">>
  ELSE IF w.op = "broadcast_to_room" /\ w.pc = "connections"
       THEN <<"connections", "R">>
  ELSE IF w.op \in {"room", "join_room"} /\ w.pc = "start" THEN <<"rooms", "W">>
  ELSE IF w.op = "join_room" /\ w.pc = "join" THEN <<w.room_name, "W">>
  ELSE IF w.op = "leave_room" /\ w.pc = "start" THEN <<"rooms", "R">>
  ELSE IF w.op = "leave_room" /\ w.pc = "leave" THEN <<w.room_name, "W">>
  ELSE <<"none", "none">>

\* The lock thread t is about to ask for is given to it at once.
Given(locks, w) ==
  LET want == Wants(w)
  IN  IF want[2] = "W" THEN ws_can_write(locks[want[1]])
      ELSE ws_can_read(locks[want[1]])

-----------------------------------------------------------------------------
(* Initial states                                                          *)

\* No function has been called on its own.
HarnessIdle ==
  /\ call = [fn |-> "none"]
  /\ result = [fn |-> "none"]

\* RustyX::new(): no middleware, the router lock free, every thread idle.
AppInit ==
  /\ middleware_stack = <<>>
  /\ lock = [readers |-> {}, writer |-> "none"]
  /\ pc = [t \in Threads |-> "idle"]
  /\ request = [t \in Threads |-> NoRequest]
  /\ response = [t \in Servers |-> NoResponse]

\* No check has been made.
NoCheck == [key |-> "none", answer |-> "none", at |-> 0, before |-> <<>>]

\* No request has been given to the middleware.
NoGate ==
  [path |-> <<>>, ip |-> "none", checked |-> FALSE, next |-> FALSE,
   status |-> 0, answer |-> "none", before |-> <<>>]

\* RateLimiter::new(RateLimiterConfig::default()): no entry, and no check
\* made.
LimiterIdle ==
  /\ rate_config = [max_requests |-> 100, window |-> from_secs(60),
                    skip_paths |-> {}]
  /\ entries = <<>>
  /\ now = 0
  /\ granted = <<>>
  /\ checks = <<>>
  /\ lastCheck = NoCheck
  /\ gate = NoGate

\* WsServer::new(): no connection, no room, every lock free, no call made.
WsInit ==
  /\ connections = {}
  /\ rooms = <<>>
  /\ wsLock = [name \in LockNames |-> Unlocked]
  /\ ws = [t \in WsThreads |-> WsIdle]
  /\ returned = NoReturn

\* The routers before any registration.
RouterInit ==
  /\ main \in { with_prefix(p) : p \in Prefixes }
  /\ other = Router_new
  /\ otherState = "none"
  /\ registered = <<>>
  /\ lastOp = [op |-> "init", target |-> "main", prefix |-> <<>>,
               configure |-> <<>>, first |-> 1, main |-> main, other |-> Router_new]

Init ==
  /\ RouterInit
  /\ HarnessIdle
  /\ AppInit
  /\ LimiterIdle
  /\ WsInit

\* One router without prefix, and no registration.
RouterIdle ==
  /\ RouterInit
  /\ main = Router_new

\* A pattern to convert.
InitConvert ==
  /\ RouterIdle
  /\ AppInit
  /\ LimiterIdle
  /\ WsInit
  /\ call \in { [fn |-> "convert_express_params", path |-> p] :
                  p \in Strings(PatternChars, MaxPattern) }
  /\ result = [fn |-> "none"]

\* convert_express_params(path)
Convert ==
  /\ call.fn = "convert_express_params"
  /\ result.fn = "none"
  /\ result' = [fn |-> "convert_express_params",
                 value |-> convert_express_params(call.path)]
  /\ UNCHANGED <<call, routerVars, appVars, limiterVars, wsVars>>

\* An uploader and a file to validate.
InitValidate ==
  /\ RouterIdle
  /\ AppInit
  /\ LimiterIdle
  /\ WsInit
  /\ call \in [fn : {"validate"}, config : UploadConfigs, mimetype : MimeTypes,
                extension : Extensions, size : FileSizes]
  /\ result = [fn |-> "none"]

\* uploader.validate(mimetype, extension, size)
Validate ==
  /\ call.fn = "validate"
  /\ result.fn = "none"
  /\ result' = [fn |-> "validate",
                 value |-> validate(call.config, call.mimetype, call.extension, call.size)]
  /\ UNCHANGED <<call, routerVars, appVars, limiterVars, wsVars>>

\* A static file handler and a request for it.
InitStatic ==
  /\ RouterIdle
  /\ AppInit
  /\ LimiterIdle
  /\ WsInit
  /\ call \in [fn : {"static_handler"}, config : StaticConfigs, path : StaticPaths]
  /\ result = [fn |-> "none"]

\* The handler answers the request.
StaticRequest ==
  /\ call.fn = "static_handler"
  /\ result.fn = "none"
  /\ result' = [fn |-> "static_handler",
                 value |-> static_handler(call.config, call.path)]
  /\ UNCHANGED <<call, routerVars, appVars, limiterVars, wsVars>>

\* A rate limiter that has not been called, or one whose key "k1" has been
\* checked 2^32 - 2 times at instant 0, max_requests of them Allowed.
InitLimiter ==
  /\ RouterIdle
  /\ HarnessIdle
  /\ AppInit
  /\ WsInit
  /\ rate_config \in LimiterConfigs
  /\ now = 0
  /\ lastCheck = NoCheck
  /\ gate = NoGate
  /\ \/ entries = <<>> /\ granted = <<>> /\ checks = <<>>
     \/ /\ entries = [k \in {"k1"} |->
                        [count |-> [hi |-> 65535, lo |-> 65534], window_start |-> 0]]
        /\ granted = [k \in {"k1"} |-> rate_config.max_requests]
        /\ checks = [k \in {"k1"} |-> [hi |-> 65535, lo |-> 65534]]

\* The limiter of a middleware, with a window of less than 2^32 seconds.
InitGate ==
  /\ InitLimiter
  /\ rate_config.window.over = 0

\* A WsServer that has just been made.
InitWs ==
  /\ Init
  /\ main = Router_new

\* Time passes.
Tick ==
  /\ now < MaxTime
  /\ now' = now + 1
  /\ UNCHANGED <<rate_config, entries, granted, checks, lastCheck, gate>>
  /\ UNCHANGED <<routerVars, harnessVars, appVars, wsVars>>

\* The checks counted for key once one more has returned res: one when it
\* began a window; a check that panicked is not counted.  The number is
\* kept as [hi, lo] like a count, and is not cut to 32 bits.
Counted(key, res) ==
  LET had == IF key \in DOMAIN checks /\ ~res.fresh THEN checks[key] ELSE u32(0)
  IN  [k \in (DOMAIN checks) \cup {key} |->
         IF k # key THEN checks[k]
         ELSE IF res.answer.kind = "Panic" THEN had ELSE u32_succ(had)]

\* The Allowed answers counted for key once res is answered.
Granted(key, res) ==
  LET had == IF key \in DOMAIN granted /\ ~res.fresh THEN granted[key] ELSE 0
  IN  [k \in (DOMAIN granted) \cup {key} |->
         IF k # key THEN granted[k]
         ELSE IF res.answer.kind = "Allowed" THEN had + 1 ELSE had]

\* A key is checked again while its count is small, or near the end of
\* its range.
MayCheck(key) ==
  key \in DOMAIN entries =>
    (IF entries[key].count.hi = 65535 THEN TRUE
     ELSE as_int(entries[key].count) < MaxCount)

\* limiter.check(key)
Check(key) ==
  /\ MayCheck(key)
  /\ \E build \in Builds :
       LET res == check(rate_config, entries, key, now, build)
       IN  /\ entries' = res.entries
           /\ lastCheck' = [key |-> key, answer |-> res.answer, at |-> now,
                            before |-> entries]
           /\ granted' = Granted(key, res)
           /\ checks' = Counted(key, res)
  /\ UNCHANGED <<rate_config, now, gate>>
  /\ UNCHANGED <<routerVars, harnessVars, appVars, wsVars>>

\* The middleware is called with a request for path from ip.
Limit(ip, path) ==
  /\ MayCheck(ip)
  /\ \E build \in Builds :
       LET res == rate_limiter(rate_config, entries, path, ip, now, build)
       IN  /\ entries' = res.entries
           /\ gate' = [path |-> path, ip |-> ip, checked |-> res.checked,
                       next |-> res.next, status |-> res.status,
                       answer |-> res.answer, before |-> entries]
           /\ IF res.checked
              THEN /\ lastCheck' = [key |-> ip, answer |-> res.answer, at |-> now,
                                    before |-> entries]
                   /\ granted' = Granted(ip, res)
                   /\ checks' = Counted(ip, res)
              ELSE UNCHANGED <<lastCheck, granted, checks>>
  /\ UNCHANGED <<rate_config, now>>
  /\ UNCHANGED <<routerVars, harnessVars, appVars, wsVars>>

NextLimiter ==
  \/ Tick
  \/ \E key \in Keys : Check(key)

\* Requests given to the middleware as time passes.
NextGate ==
  \/ Tick
  \/ \E ip \in Keys, path \in GatePaths : Limit(ip, path)

\* RustyX::new(): the application's router is Router::new().
InitApp ==
  /\ Init
  /\ main = Router_new

\* app.use_middleware(f): f is pushed under the stack's own lock.
UseMiddleware ==
  /\ Len(middleware_stack) < MaxMiddleware
  /\ middleware_stack' = Append(middleware_stack, Len(middleware_stack) + 1)
  /\ UNCHANGED <<lock, pc, request, response>>
  /\ UNCHANGED <<routerVars, harnessVars, limiterVars, wsVars>>

\* app.get(path, handler) and the like, or app.use_router(prefix, router)
\* with a router that holds one route: the call is made and asks for the
\* write lock.
RouteCall(op, method, path) ==
  /\ pc["setup"] = "idle"
  /\ Len(registered) < MaxHandlers
  /\ request' = [request EXCEPT !["setup"] =
                   [op |-> op, method |-> method, path |-> path, seen |-> 0]]
  /\ pc' = [pc EXCEPT !["setup"] = "waiting"]
  /\ UNCHANGED <<middleware_stack, lock, response>>
  /\ UNCHANGED <<routerVars, harnessVars, limiterVars, wsVars>>

\* self.router.write() returns.
RouteLock ==
  /\ pc["setup"] = "waiting"
  /\ can_write(lock)
  /\ lock' = [lock EXCEPT !.writer = "setup"]
  /\ pc' = [pc EXCEPT !["setup"] = "writing"]
  /\ UNCHANGED <<middleware_stack, request, response>>
  /\ UNCHANGED <<routerVars, harnessVars, limiterVars, wsVars>>

\* router.add_route(..) or main_router.mount(path, router) under the write
\* lock, which is dropped at the end of the block.
RouteAdd ==
  /\ pc["setup"] = "writing"
  /\ LET h   == Len(registered) + 1
         req == request["setup"]
         reg == << [method |-> req.method, path |-> req.path] >>
     IN  /\ main' = IF req.op = "route"
                    THEN add_route(main, req.method, req.path, h)
                    ELSE mount(main, <<>>, add_route(Router_new, req.method, req.path, h))
         /\ registered' = registered \o FullPaths(<<>>, reg)
         /\ lastOp' = Call(IF req.op = "route" THEN "add_route" ELSE "mount",
                           "main", <<>>, reg)
  /\ lock' = [lock EXCEPT !.writer = "none"]
  /\ pc' = [pc EXCEPT !["setup"] = "idle"]
  /\ request' = [request EXCEPT !["setup"] = NoRequest]
  /\ UNCHANGED <<other, otherState, middleware_stack, response>>
  /\ UNCHANGED <<harnessVars, limiterVars, wsVars>>

\* handle_request: Request::from_hyper gives the request.
Receive(s, method, path) ==
  /\ pc[s] \in {"idle", "done"}
  /\ request' = [request EXCEPT ![s] =
                   [op |-> "request", method |-> method, path |-> path,
                    seen |-> Len(middleware_stack)]]
  /\ response' = [response EXCEPT ![s] = NoResponse]
  /\ pc' = [pc EXCEPT ![s] = "parsed"]
  /\ UNCHANGED <<middleware_stack, lock>>
  /\ UNCHANGED <<routerVars, harnessVars, limiterVars, wsVars>>

\* handle_request: Request::from_hyper fails and 400 is answered.
BadRequest(s) ==
  /\ pc[s] \in {"idle", "done"}
  /\ request' = [request EXCEPT ![s] = NoRequest]
  /\ response' = [response EXCEPT ![s] = [NoResponse EXCEPT !.status = 400]]
  /\ pc' = [pc EXCEPT ![s] = "done"]
  /\ UNCHANGED <<middleware_stack, lock>>
  /\ UNCHANGED <<routerVars, harnessVars, limiterVars, wsVars>>

\* self.router.read() returns.
ReadLock(s) ==
  /\ pc[s] = "parsed"
  /\ can_read(lock)
  /\ lock' = [lock EXCEPT !.readers = @ \cup {s}]
  /\ pc' = [pc EXCEPT ![s] = "reading"]
  /\ UNCHANGED <<middleware_stack, request, response>>
  /\ UNCHANGED <<routerVars, harnessVars, limiterVars, wsVars>>

\* router.find_route(..) with the handler cloned, then the read lock is
\* dropped at the end of the block.
FindRoute(s) ==
  /\ pc[s] = "reading"
  /\ response' = [response EXCEPT
                    ![s].lookup = find_route(main, request[s].method, request[s].path),
                    ![s].routes = Len(registered)]
  /\ lock' = [lock EXCEPT !.readers = @ \ {s}]
  /\ pc' = [pc EXCEPT ![s] = "found"]
  /\ UNCHANGED <<middleware_stack, request>>
  /\ UNCHANGED <<routerVars, harnessVars, limiterVars, wsVars>>

\* The handler is awaited, or 404 is answered.
Dispatch(s) ==
  /\ pc[s] = "found"
  /\ LET answer == dispatch(response[s].lookup)
     IN  response' = [response EXCEPT ![s].status  = answer.status,
                                      ![s].invoked = answer.invoked,
                                      ![s].params  = answer.params]
  /\ pc' = [pc EXCEPT ![s] = "done"]
  /\ UNCHANGED <<middleware_stack, lock, request>>
  /\ UNCHANGED <<routerVars, harnessVars, limiterVars, wsVars>>

\* One task serving requests.
Serve(s, methods) ==
  \/ \E m \in methods, path \in RequestPaths : Receive(s, m, path)
  \/ BadRequest(s)
  \/ ReadLock(s)
  \/ FindRoute(s)
  \/ Dispatch(s)

\* An application with middleware, routes registered while it serves, and
\* one serving task.
NextDispatch ==
  \/ UseMiddleware
  \/ \E m \in Methods, path \in AppPaths : RouteCall("route", m, path)
  \/ RouteLock
  \/ RouteAdd
  \/ Serve("s1", Methods)

\* An application whose GET routes are registered and mounted while two
\* tasks serve GET requests.
NextLock ==
  \/ \E op \in {"route", "use_router"}, path \in AppPaths : RouteCall(op, "GET", path)
  \/ RouteLock
  \/ RouteAdd
  \/ \E s \in Servers : Serve(s, {"GET"})

\* Router::with_prefix(p) (Router::new() when p is empty): a second router.
WithPrefix(p) ==
  /\ otherState = "none"
  /\ other' = with_prefix(p)
  /\ otherState' = "built"
  /\ lastOp' = Call("with_prefix", "other", p, <<>>)
  /\ UNCHANGED <<main, registered>>
  /\ UNCHANGED <<harnessVars, appVars, limiterVars, wsVars>>

\* main.add_route(method, path, handler): Router::get/post/put/delete/patch
\* and RustyX::route, which calls it under the write lock.
AddRouteMain(method, path) ==
  /\ Len(registered) < MaxHandlers
  /\ main' = add_route(main, method, path, Len(registered) + 1)
  /\ registered' = registered \o FullPaths(main.prefix, << [method |-> method, path |-> path] >>)
  /\ lastOp' = Call("add_route", "main", <<>>, << [method |-> method, path |-> path] >>)
  /\ UNCHANGED <<other, otherState>>
  /\ UNCHANGED <<harnessVars, appVars, limiterVars, wsVars>>

\* other.add_route(method, path, handler)
AddRouteOther(method, path) ==
  /\ otherState = "built"
  /\ Len(registered) < MaxHandlers
  /\ other' = add_route(other, method, path, Len(registered) + 1)
  /\ registered' = registered \o FullPaths(other.prefix, << [method |-> method, path |-> path] >>)
  /\ lastOp' = Call("add_route", "other", <<>>, << [method |-> method, path |-> path] >>)
  /\ UNCHANGED <<main, otherState>>
  /\ UNCHANGED <<harnessVars, appVars, limiterVars, wsVars>>

\* main.mount(prefix, other), also RustyX::use_router(prefix, other); other
\* is moved into the call and drained.
Mount(prefix) ==
  /\ otherState = "built"
  /\ main' = mount(main, prefix, other)
  /\ other' = Router_new
  /\ otherState' = "moved"
  /\ lastOp' = Call("mount", "main", prefix, <<>>)
  /\ UNCHANGED registered
  /\ UNCHANGED <<harnessVars, appVars, limiterVars, wsVars>>

\* main.group(prefix, configure)
Group(prefix, configure) ==
  /\ Len(registered) + Len(configure) <= MaxHandlers
  /\ main' = group(main, prefix, configure, Len(registered) + 1)
  /\ registered' = registered \o FullPaths(main.prefix \o prefix, configure)
  /\ lastOp' = Call("group", "main", prefix, configure)
  /\ UNCHANGED <<other, otherState>>
  /\ UNCHANGED <<harnessVars, appVars, limiterVars, wsVars>>

\* Registrations on one router.
NextAdd ==
  \E m \in Methods, path \in Paths : AddRouteMain(m, path)

\* Registrations on one router of patterns with a trailing slash or a
\* marker without a name.
NextPatterns ==
  \E m \in Methods, path \in EdgePaths : AddRouteMain(m, path)

\* Registrations on one router of patterns that name the parameter of one
\* position differently.
NextNames ==
  \E m \in Methods, path \in NamePaths : AddRouteMain(m, path)

\* Registrations on one router, directly and through groups.
NextGroup ==
  \/ \E m \in Methods, path \in Paths : AddRouteMain(m, path)
  \/ \E p \in GroupPrefixes, c \in Configures : Group(p, c)

\* Registrations on the application's router and on a second router, which
\* is mounted into it.
NextMount ==
  \/ \E p \in Prefixes : WithPrefix(p)
  \/ \E m \in Methods, path \in Paths : AddRouteMain(m, path)
  \/ \E m \in Methods, path \in Paths : AddRouteOther(m, path)
  \/ \E p \in MountPrefixes : Mount(p)

-----------------------------------------------------------------------------
(* The state machine: calls made on the WsServer                           *)

\* Thread t is in call op at place.
At(t, op, place) == ws[t].op = op /\ ws[t].pc = place

\* Thread t goes on to place.
Goto(t, place) == [ws EXCEPT ![t].pc = place]

\* The call of thread t returns.
Return(t) == [ws EXCEPT ![t] = WsIdle]

\* The locks once thread t has been given lock name and has dropped it.
Passed(t, name, mode) == Unlock(Lock(wsLock, t, name, mode), t, name)

\* Thread t calls the server.  An unregister keeps the server as it is now.
WsCall(t, c) ==
  /\ ws[t].pc = "idle"
  /\ ws' = [ws EXCEPT ![t] =
              [op |-> c.op, conn_id |-> c.conn_id, room_name |-> c.room_name,
               pc |-> "start", todo |-> <<>>,
               before |-> IF c.op = "unregister"
                          THEN [connections |-> connections, rooms |-> rooms]
                          ELSE WsIdle.before]]
  /\ returned' = NoReturn
  /\ UNCHANGED <<connections, rooms, wsLock>>
  /\ UNCHANGED <<routerVars, harnessVars, appVars, limiterVars>>

\* write() of thread t finds the lock held: the thread is parked, and from
\* now on readers wait behind it.
WsPark(t) ==
  /\ Wants(ws[t])[2] = "W"
  /\ ~ws_can_write(wsLock[Wants(ws[t])[1]])
  /\ t \notin wsLock[Wants(ws[t])[1]].parked
  /\ wsLock' = [wsLock EXCEPT ![Wants(ws[t])[1]].parked = @ \cup {t}]
  /\ returned' = NoReturn
  /\ UNCHANGED <<connections, rooms, ws>>
  /\ UNCHANGED <<routerVars, harnessVars, appVars, limiterVars>>

\* register: connections.write(), insert.
Register(t) ==
  /\ At(t, "register", "start")
  /\ Given(wsLock, ws[t])
  /\ connections' = connections \cup {ws[t].conn_id}
  /\ wsLock' = Passed(t, "connections", "W")
  /\ ws' = Return(t)
  /\ returned' = NoReturn
  /\ UNCHANGED rooms
  /\ UNCHANGED <<routerVars, harnessVars, appVars, limiterVars>>

\* unregister: connections.write(), remove; the guard is kept.
UnregisterRemove(t) ==
  /\ At(t, "unregister", "start")
  /\ Given(wsLock, ws[t])
  /\ connections' = connections \ {ws[t].conn_id}
  /\ wsLock' = Lock(wsLock, t, "connections", "W")
  /\ ws' = Goto(t, "rooms")
  /\ returned' = NoReturn
  /\ UNCHANGED rooms
  /\ UNCHANGED <<routerVars, harnessVars, appVars, limiterVars>>

\* unregister: rooms.read(), and rooms.values() in some order.
UnregisterRooms(t) ==
  /\ At(t, "unregister", "rooms")
  /\ Given(wsLock, ws[t])
  /\ wsLock' = Lock(wsLock, t, "rooms", "R")
  /\ \E order \in Orders(DOMAIN rooms) :
       ws' = [ws EXCEPT ![t].pc = "loop", ![t].todo = order]
  /\ returned' = NoReturn
  /\ UNCHANGED <<connections, rooms>>
  /\ UNCHANGED <<routerVars, harnessVars, appVars, limiterVars>>

\* unregister: room.leave(conn_id) for the next room.
UnregisterLeave(t) ==
  /\ At(t, "unregister", "loop")
  /\ ws[t].todo # <<>>
  /\ Given(wsLock, ws[t])
  /\ rooms' = [rooms EXCEPT ![Head(ws[t].todo)] = WsRoom_leave(@, ws[t].conn_id)]
  /\ wsLock' = Passed(t, Head(ws[t].todo), "W")
  /\ ws' = [ws EXCEPT ![t].todo = Tail(@)]
  /\ returned' = NoReturn
  /\ UNCHANGED connections
  /\ UNCHANGED <<routerVars, harnessVars, appVars, limiterVars>>

\* unregister returns: the guards of rooms and of connections are dropped.
UnregisterReturn(t) ==
  /\ At(t, "unregister", "loop")
  /\ ws[t].todo = <<>>
  /\ wsLock' = Unlock(Unlock(wsLock, t, "rooms"), t, "connections")
  /\ ws' = Return(t)
  /\ returned' = [op |-> "unregister", conn_id |-> ws[t].conn_id,
                  connections |-> ws[t].before.connections,
                  rooms |-> ws[t].before.rooms]
  /\ UNCHANGED <<connections, rooms>>
  /\ UNCHANGED <<routerVars, harnessVars, appVars, limiterVars>>

\* send_to: connections.read(); the guard is kept while the send is awaited.
SendToLock(t) ==
  /\ At(t, "send_to", "start")
  /\ Given(wsLock, ws[t])
  /\ wsLock' = Lock(wsLock, t, "connections", "R")
  /\ ws' = Goto(t, "sending")
  /\ returned' = NoReturn
  /\ UNCHANGED <<connections, rooms>>
  /\ UNCHANGED <<routerVars, harnessVars, appVars, limiterVars>>

\* send_to: the send is done (or there was no sender), the call returns.
SendToDone(t) ==
  /\ At(t, "send_to", "sending")
  /\ wsLock' = Unlock(wsLock, t, "connections")
  /\ ws' = Return(t)
  /\ returned' = NoReturn
  /\ UNCHANGED <<connections, rooms>>
  /\ UNCHANGED <<routerVars, harnessVars, appVars, limiterVars>>

\* broadcast: connections.read(); the guard is kept while the sends are
\* awaited.
BroadcastLock(t) ==
  /\ At(t, "broadcast", "start")
  /\ Given(wsLock, ws[t])
  /\ wsLock' = Lock(wsLock, t, "connections", "R")
  /\ ws' = Goto(t, "sending")
  /\ returned' = NoReturn
  /\ UNCHANGED <<connections, rooms>>
  /\ UNCHANGED <<routerVars, harnessVars, appVars, limiterVars>>

\* broadcast: the sends are done, the call returns.
BroadcastDone(t) ==
  /\ At(t, "broadcast", "sending")
  /\ wsLock' = Unlock(wsLock, t, "connections")
  /\ ws' = Return(t)
  /\ returned' = NoReturn
  /\ UNCHANGED <<connections, rooms>>
  /\ UNCHANGED <<routerVars, harnessVars, appVars, limiterVars>>

\* broadcast_to_room: rooms.read(); without the room the call returns, with
\* it the guard is kept.
BroadcastToRoomRooms(t) ==
  /\ At(t, "broadcast_to_room", "start")
  /\ Given(wsLock, ws[t])
  /\ IF ws[t].room_name \in DOMAIN rooms
     THEN /\ wsLock' = Lock(wsLock, t, "rooms", "R")
          /\ ws' = Goto(t, "members")
     ELSE /\ wsLock' = wsLock
          /\ ws' = Return(t)
  /\ returned' = NoReturn
  /\ UNCHANGED <<connections, rooms>>
  /\ UNCHANGED <<routerVars, harnessVars, appVars, limiterVars>>

\* broadcast_to_room: room.members(), a clone made under members.read().
BroadcastToRoomMembers(t) ==
  /\ At(t, "broadcast_to_room", "members")
  /\ Given(wsLock, ws[t])
  /\ ws' = [ws EXCEPT ![t].pc = "connections", ![t].todo = rooms[ws[t].room_name]]
  /\ returned' = NoReturn
  /\ UNCHANGED <<connections, rooms, wsLock>>
  /\ UNCHANGED <<routerVars, harnessVars, appVars, limiterVars>>

\* broadcast_to_room: connections.read(), kept while the sends are awaited.
BroadcastToRoomConnections(t) ==
  /\ At(t, "broadcast_to_room", "connections")
  /\ Given(wsLock, ws[t])
  /\ wsLock' = Lock(wsLock, t, "connections", "R")
  /\ ws' = Goto(t, "sending")
  /\ returned' = NoReturn
  /\ UNCHANGED <<connections, rooms>>
  /\ UNCHANGED <<routerVars, harnessVars, appVars, limiterVars>>

\* broadcast_to_room: the sends are done, the guards of connections and of
\* rooms are dropped.
BroadcastToRoomDone(t) ==
  /\ At(t, "broadcast_to_room", "sending")
  /\ wsLock' = Unlock(Unlock(wsLock, t, "connections"), t, "rooms")
  /\ ws' = Return(t)
  /\ returned' = NoReturn
  /\ UNCHANGED <<connections, rooms>>
  /\ UNCHANGED <<routerVars, harnessVars, appVars, limiterVars>>

\* room: rooms.write(), the room is made if it is not there.
Room(t) ==
  /\ At(t, "room", "start")
  /\ Given(wsLock, ws[t])
  /\ rooms' = WsServer_room(rooms, ws[t].room_name)
  /\ wsLock' = Passed(t, "rooms", "W")
  /\ ws' = Return(t)
  /\ returned' = NoReturn
  /\ UNCHANGED connections
  /\ UNCHANGED <<routerVars, harnessVars, appVars, limiterVars>>

\* join_room: self.room(room_name), which returns a handle of the room.
JoinRoomRoom(t) ==
  /\ At(t, "join_room", "start")
  /\ Given(wsLock, ws[t])
  /\ rooms' = WsServer_room(rooms, ws[t].room_name)
  /\ wsLock' = Passed(t, "rooms", "W")
  /\ ws' = Goto(t, "join")
  /\ returned' = NoReturn
  /\ UNCHANGED connections
  /\ UNCHANGED <<routerVars, harnessVars, appVars, limiterVars>>

\* join_room: room.join(conn_id) under members.write().
JoinRoomJoin(t) ==
  /\ At(t, "join_room", "join")
  /\ Given(wsLock, ws[t])
  /\ rooms' = [rooms EXCEPT ![ws[t].room_name] = WsRoom_join(@, ws[t].conn_id)]
  /\ wsLock' = Passed(t, ws[t].room_name, "W")
  /\ ws' = Return(t)
  /\ returned' = NoReturn
  /\ UNCHANGED connections
  /\ UNCHANGED <<routerVars, harnessVars, appVars, limiterVars>>

\* leave_room: rooms.read(); without the room the call returns, with it the
\* guard is kept.
LeaveRoomRooms(t) ==
  /\ At(t, "leave_room", "start")
  /\ Given(wsLock, ws[t])
  /\ IF ws[t].room_name \in DOMAIN rooms
     THEN /\ wsLock' = Lock(wsLock, t, "rooms", "R")
          /\ ws' = Goto(t, "leave")
     ELSE /\ wsLock' = wsLock
          /\ ws' = Return(t)
  /\ returned' = NoReturn
  /\ UNCHANGED <<connections, rooms>>
  /\ UNCHANGED <<routerVars, harnessVars, appVars, limiterVars>>

\* leave_room: room.leave(conn_id) under members.write(), then the guard of
\* rooms is dropped.
LeaveRoomLeave(t) ==
  /\ At(t, "leave_room", "leave")
  /\ Given(wsLock, ws[t])
  /\ rooms' = [rooms EXCEPT ![ws[t].room_name] = WsRoom_leave(@, ws[t].conn_id)]
  /\ wsLock' = Unlock(Passed(t, ws[t].room_name, "W"), t, "rooms")
  /\ ws' = Return(t)
  /\ returned' = NoReturn
  /\ UNCHANGED connections
  /\ UNCHANGED <<routerVars, harnessVars, appVars, limiterVars>>

\* A step of the call thread t is making, the lock it asks for being given.
WsRun(t) ==
  \/ Register(t)
  \/ UnregisterRemove(t)
  \/ UnregisterRooms(t)
  \/ UnregisterLeave(t)
  \/ UnregisterReturn(t)
  \/ SendToLock(t)
  \/ SendToDone(t)
  \/ BroadcastLock(t)
  \/ BroadcastDone(t)
  \/ BroadcastToRoomRooms(t)
  \/ BroadcastToRoomMembers(t)
  \/ BroadcastToRoomConnections(t)
  \/ BroadcastToRoomDone(t)
  \/ Room(t)
  \/ JoinRoomRoom(t)
  \/ JoinRoomJoin(t)
  \/ LeaveRoomRooms(t)
  \/ LeaveRoomLeave(t)

\* One thread makes one call after the other, with two connection ids and
\* two room names.
NextWsCalls ==
  \/ \E c \in WsCalls(ConnectionIds, RoomNames) : WsCall("t1", c)
  \/ WsRun("t1")

\* Three threads make calls at the same time, with one connection id and
\* one room name.
NextWs ==
  \/ \E t \in WsThreads, c \in WsCalls({"c1"}, {"r1"}) : WsCall(t, c)
  \/ \E t \in WsThreads : WsRun(t)
  \/ \E t \in WsThreads : WsPark(t)

Next ==
  \/ \E p \in Prefixes : WithPrefix(p)
  \/ \E m \in Methods, path \in Paths : AddRouteMain(m, path)
  \/ \E m \in Methods, path \in Paths : AddRouteOther(m, path)
  \/ \E p \in MountPrefixes : Mount(p)
  \/ \E p \in GroupPrefixes, c \in Configures : Group(p, c)
  \/ NextPatterns
  \/ NextNames
  \/ Convert
  \/ Validate
  \/ StaticRequest
  \/ NextDispatch
  \/ NextLock
  \/ NextLimiter
  \/ NextGate
  \/ NextWsCalls
  \/ NextWs

Spec == Init /\ [][Next]_vars

SpecLimiter == InitLimiter /\ [][NextLimiter]_vars

SpecGate == InitGate /\ [][NextGate]_vars

SpecWsCalls == InitWs /\ [][NextWsCalls]_vars

SpecWs == InitWs /\ [][NextWs]_vars

SpecDispatch == InitApp /\ [][NextDispatch]_vars

SpecLock == InitApp /\ [][NextLock]_vars

SpecStatic == InitStatic /\ [][StaticRequest]_vars

SpecValidate == InitValidate /\ [][Validate]_vars

SpecConvert == InitConvert /\ [][Convert]_vars

SpecPatterns == Init /\ [][NextPatterns]_vars

SpecNames == Init /\ [][NextNames]_vars

SpecAdd == Init /\ [][NextAdd]_vars

SpecGroup == Init /\ [][NextGroup]_vars

SpecMount == InitApp /\ [][NextMount]_vars

-----------------------------------------------------------------------------
(* Vocabulary of the properties: patterns and paths seen segment by        *)
(* segment, independently of the conversion and of the table               *)

\* The request paths looked up: one to three segments, each "a", "b" or "g".
ProbeSegments == { <<"a">>, <<"b">>, <<"g">> }

ProbeLengths == 1..3

Probes ==
  { Join(segs) : segs \in UNION { [1..n -> ProbeSegments] : n \in ProbeLengths } }

IsParam(seg) == Len(seg) >= 1 /\ seg[1] = ":"

ParamName(seg) == Tail(seg)

\* The positions of the parameter segments of a pattern written with ':'.
ParamPositions(pattern) ==
  { n \in 1..Len(Split(pattern)) : IsParam(Split(pattern)[n]) }

ParamNames(pattern) ==
  { ParamName(Split(pattern)[n]) : n \in ParamPositions(pattern) }

\* path has the segment count of pattern, equals it at every literal
\* segment and has a non-empty segment at every parameter segment.
SegMatches(pattern, path) ==
  LET ps == Split(pattern)
      qs == Split(path)
  IN  /\ Len(ps) = Len(qs)
      /\ \A n \in 1..Len(ps) :
           IF IsParam(ps[n]) THEN qs[n] # <<>> ELSE ps[n] = qs[n]

\* The pattern a handler was registered with (prefix included).
PatternOf(h) == registered[h].full

\* The patterns whose routes the table of method m of router r holds.
PatternsIn(r, m) ==
  IF m \in DOMAIN r.routes THEN { PatternOf(e.value) : e \in r.routes[m] } ELSE {}

\* L and P have the same segments except at one position, where L has a
\* literal and P a parameter.
LiteralBesideParam(L, P) ==
  LET ls == Split(L)
      ps == Split(P)
  IN  /\ Len(ls) = Len(ps)
      /\ \E n \in 1..Len(ls) :
           /\ ~IsParam(ls[n]) /\ IsParam(ps[n])
           /\ \A k \in 1..Len(ls) : k # n => ls[k] = ps[k]

\* Handler h with the parameters of pattern taken from path: each
\* parameter name mapped to the path segment at its position.
ExpectedAt(h, pattern, path) ==
  Some(h, [name \in ParamNames(pattern) |->
             LET n == CHOOSE k \in ParamPositions(pattern) :
                        ParamName(Split(pattern)[k]) = name
             IN  Split(path)[n]])

\* What find_route answers for a path that handler h's pattern matches, when
\* h is the route found.
Expected(h, path) == ExpectedAt(h, PatternOf(h), path)

-----------------------------------------------------------------------------
(* C1: literal precedence                                                  *)

\* C1: when the table of a method holds a route L and a route P that differ
\* only at one position, literal in L and parameter in P, whichever was
\* registered first, then a path that L matches finds L's handler (with no
\* parameter from that position, so none at all for a literal L), and a
\* path that only P matches finds P's handler with the segment captured.
C1_LiteralPrecedence ==
  \A m \in DOMAIN main.routes :
    \A l \in main.routes[m], p \in main.routes[m] :
      LiteralBesideParam(PatternOf(l.value), PatternOf(p.value)) =>
        \A q \in Probes :
          /\ SegMatches(PatternOf(l.value), q)
               => find_route(main, m, q) = Expected(l.value, q)
          /\ ( /\ SegMatches(PatternOf(p.value), q)
               /\ \A t \in main.routes[m] \ {p} : ~SegMatches(PatternOf(t.value), q) )
               => find_route(main, m, q) = Expected(p.value, q)

\* Reached: "/:i" was registered before "/a" under GET, "/a" finds the
\* literal route with no parameters and "/b" the parameter route with
\* {i: "b"}.
C1_Witness ==
  /\ "GET" \in DOMAIN main.routes
  /\ \E l \in main.routes["GET"], p \in main.routes["GET"] :
       /\ PatternOf(l.value) = <<"/", "a">>
       /\ PatternOf(p.value) = <<"/", ":", "i">>
       /\ p.value < l.value
       /\ find_route(main, "GET", <<"/", "a">>) = Some(l.value, <<>>)
       /\ find_route(main, "GET", <<"/", "b">>).handler = p.value
       /\ find_route(main, "GET", <<"/", "b">>).params[<<"i">>] = <<"b">>

-----------------------------------------------------------------------------
(* C2: parameter extraction                                                *)

\* C2: whenever find_route finds a handler, the parameter map has exactly
\* the parameter names of the handler's pattern, each mapped to the path
\* segment at the position of that parameter.
C2_ParameterExtraction ==
  \A m \in Methods : \A q \in Probes :
    LET res == find_route(main, m, q)
    IN  res.found => res.params = Expected(res.handler, q).params

\* Reached: the pattern "/:k/:i" (prefix "/:k", path "/:i") found on "/a/b"
\* with exactly {k: "a", i: "b"}.
C2_Witness ==
  LET res == find_route(main, "GET", <<"/", "a", "/", "b">>)
  IN  /\ res.found
      /\ PatternOf(res.handler) = <<"/", ":", "k", "/", ":", "i">>
      /\ DOMAIN res.params = { <<"k">>, <<"i">> }
      /\ res.params[<<"k">>] = <<"a">>
      /\ res.params[<<"i">>] = <<"b">>

-----------------------------------------------------------------------------
(* C3: method isolation                                                    *)

\* C3: find_route(m, path) finds a handler only if that handler was
\* registered under m with a pattern that matches path, and a method under
\* which nothing was registered finds nothing.
C3_MethodIsolation ==
  \A m \in Methods : \A q \in Probes :
    LET res == find_route(main, m, q)
    IN  /\ res.found =>
             /\ res.handler \in 1..Len(registered)
             /\ registered[res.handler].method = m
             /\ SegMatches(PatternOf(res.handler), q)
        /\ (\A h \in 1..Len(registered) : registered[h].method # m) => ~res.found

\* Reached: "/a" and "/:i" are registered under GET and nothing under POST;
\* GET "/a" is found and POST "/a" is not.
C3_Witness ==
  /\ PatternsIn(main, "GET") = { <<"/", "a">>, <<"/", ":", "i">> }
  /\ find_route(main, "GET", <<"/", "a">>).found
  /\ \A h \in 1..Len(registered) : registered[h].method = "GET"
  /\ ~find_route(main, "POST", <<"/", "a">>).found

-----------------------------------------------------------------------------
(* C4: exact-depth matching                                                *)

\* C4: find_route finds a handler only for a path with exactly as many
\* segments as the handler's pattern: neither a path that stops before the
\* pattern ends nor one that goes on after it is matched.
C4_ExactDepth ==
  \A m \in Methods : \A q \in Probes :
    LET res == find_route(main, m, q)
    IN  res.found => Len(Split(q)) = Len(Split(PatternOf(res.handler)))

\* Reached: only "/a/b" is registered under GET; "/a/b" is found, its
\* prefix "/a" and its extension "/a/b/a" are not.
C4_Witness ==
  /\ PatternsIn(main, "GET") = { <<"/", "a", "/", "b">> }
  /\ find_route(main, "GET", <<"/", "a", "/", "b">>).found
  /\ ~find_route(main, "GET", <<"/", "a">>).found
  /\ ~find_route(main, "GET", <<"/", "a", "/", "b", "/", "a">>).found

-----------------------------------------------------------------------------
(* C5: prefix application                                                  *)

\* The pattern of the n-th registration of the last call, when the router
\* it was made on had prefix P: P followed by the supplied path.
Supplied(n) == lastOp.configure[n]

\* No route of the table of method m of router r, other than handler h's,
\* has a pattern that matches q.
OnlyMatch(r, m, h, q) ==
  \A t \in r.routes[m] : t.value # h => ~SegMatches(PatternOf(t.value), q)

\* C5: after add_route(method, path, h) has inserted its route on a router
\* with prefix P, the route is stored under P followed by path: h is found
\* for the paths that pattern matches (and no other route matches), with
\* the parameters of P and of path alike, and for no other path; with the
\* empty prefix and a literal path, h is found at path itself with an empty
\* parameter map.
C5_PrefixApplication ==
  (lastOp.op = "add_route" /\ lastOp.first \in Held(main)) =>
    LET h       == lastOp.first
        m       == Supplied(1).method
        P       == lastOp.main.prefix
        pattern == P \o Supplied(1).path
    IN  /\ \A q \in Probes :
             /\ (SegMatches(pattern, q) /\ OnlyMatch(main, m, h, q))
                  => find_route(main, m, q) = ExpectedAt(h, pattern, q)
             /\ ~SegMatches(pattern, q)
                  => find_route(main, m, q).handler # h
        /\ (P = <<>> /\ ParamPositions(pattern) = {})
             => find_route(main, m, Supplied(1).path) = Some(h, <<>>)

\* Reached: add_route(GET, "/:i") on a router with prefix "/:k" has just
\* inserted its route, and "/a/b" finds it with {k: "a", i: "b"}.
C5_Witness ==
  /\ lastOp.op = "add_route"
  /\ lastOp.main.prefix = <<"/", ":", "k">>
  /\ Supplied(1) = [method |-> "GET", path |-> <<"/", ":", "i">>]
  /\ LET res == find_route(main, "GET", <<"/", "a", "/", "b">>)
     IN  /\ res.found
         /\ res.handler = lastOp.first
         /\ res.params[<<"k">>] = <<"a">>
         /\ res.params[<<"i">>] = <<"b">>

-----------------------------------------------------------------------------
(* C6: group prefixing                                                     *)

\* The child router the last call, a group, built and configured.
GroupChild ==
  group_router(lastOp.main, lastOp.prefix, lastOp.configure, lastOp.first)

\* The n-th registration of the last call, a group on a parent with prefix
\* P and with group prefix G, is found in the parent under P G R with the
\* parameters of that pattern, for every path only that pattern matches
\* among the child's routes.
GroupRouteFound(n) ==
  LET h       == lastOp.first + n - 1
      m       == Supplied(n).method
      pattern == lastOp.main.prefix \o lastOp.prefix \o Supplied(n).path
      child   == GroupChild
  IN  h \in Held(child) =>
        \A q \in Probes :
          (SegMatches(pattern, q) /\ OnlyMatch(child, m, h, q))
            => find_route(main, m, q) = ExpectedAt(h, pattern, q)

\* C6 as stated: after group(G, configure) every route configure registered
\* on the child is found in the parent under P G R.
C6_GroupPrefixing_AsStated ==
  lastOp.op = "group" =>
    \A n \in 1..Len(lastOp.configure) : GroupRouteFound(n)

\* C6 amended: after group(G, configure) every route configure registered
\* on the child under a method for which the parent had no table is found
\* in the parent under P G R, with the parameters of P G R extracted.
C6_GroupPrefixing ==
  lastOp.op = "group" =>
    \A n \in 1..Len(lastOp.configure) :
      Supplied(n).method \notin DOMAIN lastOp.main.routes => GroupRouteFound(n)

\* Reached: a parent with prefix "/:k" and no GET table has just run
\* group("/g", configure) with configure registering GET "/:i", and
\* "/a/g/b" finds that handler with {k: "a", i: "b"}.
C6_Witness ==
  /\ lastOp.op = "group"
  /\ lastOp.main.prefix = <<"/", ":", "k">>
  /\ lastOp.prefix = <<"/", "g">>
  /\ Len(lastOp.configure) >= 1
  /\ Supplied(1) = [method |-> "GET", path |-> <<"/", ":", "i">>]
  /\ "GET" \notin DOMAIN lastOp.main.routes
  /\ LET res == find_route(main, "GET", <<"/", "a", "/", "g", "/", "b">>)
     IN  /\ res.found
         /\ res.handler = lastOp.first
         /\ res.params[<<"k">>] = <<"a">>
         /\ res.params[<<"i">>] = <<"b">>

-----------------------------------------------------------------------------
(* C7: mount under a prefix                                                *)

\* C7 as stated, for the methods whose table the destination adopts: after
\* mount(prefix, other) every route other held under pattern R is found in
\* the destination at the paths prefix followed by R matches, and, when
\* prefix is not empty, not at the paths R alone matches.
C7_MountUnderPrefix ==
  lastOp.op = "mount" =>
    \A m \in DOMAIN lastOp.other.routes :
      m \notin DOMAIN lastOp.main.routes =>
        \A e \in lastOp.other.routes[m] : \A q \in Probes :
          LET R == PatternOf(e.value)
          IN  /\ ( /\ SegMatches(lastOp.prefix \o R, q)
                   /\ \A t \in lastOp.other.routes[m] \ {e} :
                        ~SegMatches(lastOp.prefix \o PatternOf(t.value), q) )
                   => find_route(main, m, q) = ExpectedAt(e.value, lastOp.prefix \o R, q)
              /\ (lastOp.prefix # <<>> /\ SegMatches(R, q))
                   => find_route(main, m, q).handler # e.value

-----------------------------------------------------------------------------
(* C8: mount merges first-writer-wins per method                           *)

\* C8: after mount, for a method the destination had a table for, every
\* lookup is as before the call and no route of the source is held; for a
\* method only the source had a table for, every lookup is what the source
\* answered; a method neither had a table for still has none.
C8_MountFirstWriterWins ==
  lastOp.op = "mount" =>
    \A m \in Methods :
      /\ m \in DOMAIN lastOp.main.routes =>
           /\ \A q \in Probes : find_route(main, m, q) = find_route(lastOp.main, m, q)
           /\ m \in DOMAIN lastOp.other.routes =>
                \A e \in lastOp.other.routes[m] : e.value \notin Held(main)
      /\ (m \notin DOMAIN lastOp.main.routes /\ m \in DOMAIN lastOp.other.routes) =>
           /\ m \in DOMAIN main.routes
           /\ \A q \in Probes : find_route(main, m, q) = find_route(lastOp.other, m, q)
           /\ \A e \in lastOp.other.routes[m] : e.value \in Held(main)
      /\ (m \notin DOMAIN lastOp.main.routes /\ m \notin DOMAIN lastOp.other.routes) =>
           m \notin DOMAIN main.routes

\* Reached: a mount where both routers had routes under GET and only the
\* source had routes under POST: the source's GET route is not found, its
\* POST route is.
C8_Witness ==
  /\ lastOp.op = "mount"
  /\ "GET" \in DOMAIN lastOp.main.routes /\ lastOp.main.routes["GET"] # {}
  /\ "GET" \in DOMAIN lastOp.other.routes /\ lastOp.other.routes["GET"] # {}
  /\ "POST" \notin DOMAIN lastOp.main.routes
  /\ "POST" \in DOMAIN lastOp.other.routes /\ lastOp.other.routes["POST"] # {}
  /\ \E q \in Probes :
       /\ find_route(lastOp.other, "GET", q).found
       /\ find_route(main, "GET", q) # find_route(lastOp.other, "GET", q)
  /\ \E q \in Probes : find_route(main, "POST", q).found

-----------------------------------------------------------------------------
(* C9: group merges like mount                                             *)

\* C9: after group, the table of a method the parent had a table for is the
\* table it had, so no route configure registered under that method is held
\* and every path such a route's pattern matches is answered as before the
\* call; the table of a method the parent had no table for is the child's.
C9_GroupFirstWriterWins ==
  lastOp.op = "group" =>
    LET child == GroupChild
    IN  \A m \in Methods :
          /\ m \in DOMAIN lastOp.main.routes =>
               /\ m \in DOMAIN main.routes
               /\ main.routes[m] = lastOp.main.routes[m]
               /\ \A n \in 1..Len(lastOp.configure) :
                    Supplied(n).method = m =>
                      /\ (lastOp.first + n - 1) \notin Held(main)
                      /\ \A q \in Probes :
                           SegMatches(lastOp.main.prefix \o lastOp.prefix
                                        \o Supplied(n).path, q)
                             => find_route(main, m, q) = find_route(lastOp.main, m, q)
          /\ m \notin DOMAIN lastOp.main.routes =>
               IF m \in DOMAIN child.routes
               THEN m \in DOMAIN main.routes /\ main.routes[m] = child.routes[m]
               ELSE m \notin DOMAIN main.routes

\* Reached: the parent had a route under GET, configure registered a route
\* under GET, and after the group that route is found nowhere while the
\* parent's route still is.
C9_Witness ==
  /\ lastOp.op = "group"
  /\ "GET" \in DOMAIN lastOp.main.routes /\ lastOp.main.routes["GET"] # {}
  /\ Len(lastOp.configure) >= 1
  /\ Supplied(1).method = "GET"
  /\ lastOp.first \notin Held(main)
  /\ \E q \in Probes : find_route(GroupChild, "GET", q).handler = lastOp.first
  /\ \E q \in Probes : find_route(main, "GET", q).found

-----------------------------------------------------------------------------
(* C10: duplicate registration                                             *)

\* The last call was add_route with the method and the pattern of an
\* earlier registration on the same router, whose handler is first.
DuplicateOf(first) ==
  /\ lastOp.op = "add_route"
  /\ first < lastOp.first
  /\ first \in Held(lastOp.main)
  /\ registered[first] = registered[lastOp.first]

\* C10 as stated: after a second add_route with the same method and
\* pattern, every path that found the first handler finds the second.
C10_DuplicateOverwrites ==
  \A first \in 1..Len(registered) :
    DuplicateOf(first) =>
      \A q \in Probes :
        find_route(lastOp.main, registered[first].method, q).handler = first
          => find_route(main, registered[first].method, q).handler = lastOp.first

\* C10 amended: a second add_route with the same method and pattern is
\* rejected by the table and only logged: every lookup, of every method,
\* answers as before the call, and from then on the second handler is never
\* found while the paths the pattern matches keep finding the first.
C10_DuplicateRejected ==
  /\ \A first \in 1..Len(registered) :
       DuplicateOf(first) =>
         \A m \in Methods : \A q \in Probes :
           find_route(main, m, q) = find_route(lastOp.main, m, q)
  /\ \A first \in Held(main) : \A second \in 1..Len(registered) :
       (first < second /\ registered[first] = registered[second]) =>
         /\ second \notin Held(main)
         /\ \A q \in Probes :
              ( /\ SegMatches(PatternOf(first), q)
                /\ OnlyMatch(main, registered[first].method, first, q) )
                => find_route(main, registered[first].method, q) = Expected(first, q)

\* Reached: GET "/a" registered twice; after the second call "/a" still
\* finds the first handler.
C10_Witness ==
  /\ DuplicateOf(1)
  /\ registered[1] = [method |-> "GET", full |-> <<"/", "a">>]
  /\ lastOp.first = 2
  /\ find_route(main, "GET", <<"/", "a">>) = Some(1, <<>>)

-----------------------------------------------------------------------------
(* C11: a failed registration changes no lookup                            *)

\* The request paths looked up where trailing slashes matter: the probes
\* and the probes followed by a slash.
EdgeProbes == Probes \cup { q \o <<"/">> : q \in Probes }

\* C11: when add_route does not insert its route (the table rejects the
\* converted pattern as malformed or as conflicting), every lookup, of
\* every method and path, answers after the call what it answered before.
C11_PartialFailureIsolation ==
  (lastOp.op = "add_route" /\ lastOp.first \notin Held(main)) =>
    \A m \in Methods : \A q \in EdgeProbes :
      find_route(main, m, q) = find_route(lastOp.main, m, q)

\* Reached: GET holds "/a" and "/a/"; a third add_route of GET "/a" is
\* rejected as a conflict and both routes are found as before.
C11_Witness ==
  /\ lastOp.op = "add_route"
  /\ lastOp.first = 3
  /\ lastOp.first \notin Held(main)
  /\ Supplied(1) = [method |-> "GET", path |-> <<"/", "a">>]
  /\ PatternsIn(lastOp.main, "GET") = { <<"/", "a">>, <<"/", "a", "/">> }
  /\ find_route(main, "GET", <<"/", "a">>).found
  /\ find_route(main, "GET", <<"/", "a", "/">>).found
  /\ find_route(main, "GET", <<"/", "a">>).handler
       # find_route(main, "GET", <<"/", "a", "/">>).handler

-----------------------------------------------------------------------------
(* C12: the middleware pipeline                                            *)

\* Serving task s has answered a request that was parsed.
Answered(s) == pc[s] = "done" /\ request[s].op = "request"

\* C12: when a request has been answered, the middleware functions added
\* before it arrived were invoked first, in the order they were added, and
\* the route handler, if one was found, after them.
C12_MiddlewarePipeline ==
  \A s \in Servers :
    Answered(s) =>
      /\ \A k \in 1..request[s].seen :
           /\ Len(response[s].invoked) >= k
           /\ response[s].invoked[k] = <<"middleware", k>>
      /\ response[s].lookup.found =>
           /\ Len(response[s].invoked) > request[s].seen
           /\ response[s].invoked[Len(response[s].invoked)]
                = <<"handler", response[s].lookup.handler>>

-----------------------------------------------------------------------------
(* C13: request dispatch                                                   *)

\* The handlers registered under the request's method, before the lookup
\* of serving task s, with a pattern that matches the request's path.
Known(s) ==
  { h \in 1..response[s].routes :
      /\ registered[h].method = request[s].method
      /\ SegMatches(PatternOf(h), request[s].path) }

\* C13: a parsed request whose path no route registered before the lookup
\* matches is answered 404 and no handler is invoked; otherwise exactly one
\* handler is invoked, the one the lookup returned, which is one of the
\* matching routes, with the params of the request set to the segments at
\* its parameters.  A request that does not parse invokes no handler.
C13_RequestDispatch ==
  \A s \in Servers :
    /\ (pc[s] = "done" /\ request[s].op = "none") => response[s].invoked = <<>>
    /\ Answered(s) =>
         IF Known(s) = {}
         THEN /\ ~response[s].lookup.found
              /\ response[s].status = 404
              /\ response[s].invoked = <<>>
         ELSE \E h \in Known(s) :
                /\ response[s].lookup = Expected(h, request[s].path)
                /\ response[s].invoked = << <<"handler", h>> >>
                /\ response[s].params = Expected(h, request[s].path).params
                /\ response[s].status = 200

\* Reached: GET "/b" has been answered by the handler of "/:i" with params
\* {i: "b"}, and POST "/b" by 404.
C13_Witness ==
  /\ Answered("s1")
  /\ request["s1"].path = <<"/", "b">>
  /\ response["s1"].status = 200
  /\ Len(response["s1"].invoked) = 1
  /\ PatternOf(response["s1"].invoked[1][2]) = <<"/", ":", "i">>
  /\ response["s1"].params = [name \in { <<"i">> } |-> <<"b">>]
  /\ find_route(main, "POST", <<"/", "b">>) = None

-----------------------------------------------------------------------------
(* C14: readers and writers of the router                                  *)

\* C14: the set-up thread is never inside add_route or mount while a
\* serving task is inside find_route; and a serving task that asks for the
\* read lock while no registration holds or awaits the write lock gets it,
\* whichever other tasks hold the read lock.
C14_ReaderWriterExclusion ==
  /\ ~(pc["setup"] = "writing" /\ \E s \in Servers : pc[s] = "reading")
  /\ \A s \in Servers :
       (pc[s] = "parsed" /\ pc["setup"] = "idle") => ENABLED ReadLock(s)

\* Reached: both serving tasks are inside find_route at once while a
\* registration waits for the write lock.
C14_Witness ==
  /\ pc["s1"] = "reading"
  /\ pc["s2"] = "reading"
  /\ lock.readers = Servers
  /\ pc["setup"] = "waiting"

-----------------------------------------------------------------------------
(* C15: the rate limit bound                                               *)

\* C15: in the current window of every key at most max_requests checks of
\* the key were answered Allowed; every check returns, Allowed or Exceeded;
\* and a check is answered Exceeded only when the key's own checks in the
\* window have used the quota up.
C15_RateLimitBound ==
  /\ \A k \in DOMAIN granted : granted[k] <= rate_config.max_requests
  /\ lastCheck.key # "none" =>
       /\ lastCheck.answer.kind \in {"Allowed", "Exceeded"}
       /\ lastCheck.answer.kind = "Exceeded"
            => granted[lastCheck.key] >= rate_config.max_requests

-----------------------------------------------------------------------------
(* C16: pattern compilation                                                *)

\* Character i of s belongs to the run of identifier characters that
\* follows a ':'.
InRun(s, i) ==
  /\ s[i] \in IdentChars
  /\ \E j \in 1..(i - 1) :
       s[j] = ":" /\ \A k \in (j + 1)..i : s[k] \in IdentChars

\* A parameter ends with character i of s: a ':' or a character of its run
\* that no identifier character follows.
Closes(s, i) ==
  /\ s[i] = ":" \/ InRun(s, i)
  /\ i = Len(s) \/ s[i + 1] \notin IdentChars

\* C16: the converted pattern is the pattern with every ':' replaced by
\* '{' and a '}' added after the last identifier character of the run that
\* follows the ':' (after the '{' itself when the run is empty), every
\* other character copied in order; a pattern without ':' is returned
\* unchanged, and the patterns of the repository's test convert as the
\* test says.
C16_PatternCompilation ==
  /\ result.fn = "convert_express_params" =>
       LET s      == call.path
           out    == result.value
           closes == { k \in 1..Len(s) : Closes(s, k) }
           pos(i) == i + Cardinality({ k \in closes : k < i })
       IN  /\ Len(out) = Len(s) + Cardinality(closes)
           /\ \A i \in 1..Len(s) :
                /\ out[pos(i)] = (IF s[i] = ":" THEN "{" ELSE s[i])
                /\ i \in closes => out[pos(i) + 1] = "}"
           /\ (\A i \in 1..Len(s) : s[i] # ":") => out = s
  /\ convert_express_params(<<"/", "a", "/", ":", "i">>) = <<"/", "a", "/", "{", "i", "}">>
  /\ convert_express_params(<<"/", "a", "/", ":", "i", "/", "p", "/", ":", "p", "1">>)
       = <<"/", "a", "/", "{", "i", "}", "/", "p", "/", "{", "p", "1", "}">>
  /\ convert_express_params(<<"/", "a">>) = <<"/", "a">>

\* Reached: ":a-:" has been converted to "{a}-{}".
C16_Witness ==
  /\ result.fn = "convert_express_params"
  /\ call.path = <<":", "a", "-", ":">>
  /\ result.value = <<"{", "a", "}", "-", "{", "}">>

-----------------------------------------------------------------------------
(* C17: a marker without a name                                            *)

\* The pattern has a ':' that no identifier character follows.
EmptyMarker(pattern) ==
  \E i \in 1..Len(pattern) :
    /\ pattern[i] = ":"
    /\ (i = Len(pattern) \/ pattern[i + 1] \notin IdentChars)

\* The last call was add_route with a pattern, prefix included, that has a
\* marker without a name.
EmptyMarkerAdded ==
  /\ lastOp.op = "add_route"
  /\ EmptyMarker(lastOp.main.prefix \o Supplied(1).path)

\* C17 as stated: after add_route with a marker without a name the route is
\* in the table, and a path with a segment at the marker's position finds
\* the handler with that segment captured under the empty name.
C17_EmptyNameAccepted ==
  (EmptyMarkerAdded /\ lastOp.main.routes = <<>>) =>
    LET h       == lastOp.first
        m       == Supplied(1).method
        pattern == lastOp.main.prefix \o Supplied(1).path
    IN  /\ h \in Held(main)
        /\ \A q \in Probes :
             SegMatches(pattern, q) => find_route(main, m, q) = ExpectedAt(h, pattern, q)

\* C17 amended: the marker is converted to the parameter "{}" with the
\* empty name, the table rejects that route, and add_route only logs it:
\* the handler is not in the table, no path finds it, and every lookup
\* answers as before the call.
C17_EmptyNameRejected ==
  EmptyMarkerAdded =>
    LET h         == lastOp.first
        converted == convert_express_params(lastOp.main.prefix \o Supplied(1).path)
    IN  /\ \E i \in 1..(Len(converted) - 1) : converted[i] = "{" /\ converted[i + 1] = "}"
        /\ h \notin Held(main)
        /\ \A m \in Methods : \A q \in EdgeProbes :
             /\ find_route(main, m, q).handler # h
             /\ find_route(main, m, q) = find_route(lastOp.main, m, q)

\* Reached: GET "/:" was registered first on a router without prefix, and
\* "/a" finds nothing; the table of GET exists and is empty.
C17_Witness ==
  /\ EmptyMarkerAdded
  /\ lastOp.first = 1
  /\ lastOp.main.prefix = <<>>
  /\ Supplied(1) = [method |-> "GET", path |-> <<"/", ":">>]
  /\ "GET" \in DOMAIN main.routes /\ main.routes["GET"] = {}
  /\ ~find_route(main, "GET", <<"/", "a">>).found

-----------------------------------------------------------------------------
(* C18: upload validation                                                  *)

\* The extensions in lower case, written out.
Lowered(extension) ==
  CASE extension = <<"P", "N", "G">> -> <<"p", "n", "g">>
    [] extension = <<"P", "n", "g">> -> <<"p", "n", "g">>
    [] OTHER -> extension

\* C18: validate answers Ok exactly when the size is at most max_file_size,
\* allowed_types is empty or holds the MIME type, and allowed_extensions is
\* empty or holds the extension in lower case; otherwise it answers the
\* error of the first check that fails, in the order size, type, extension.
C18_UploadValidation ==
  result.fn = "validate" =>
    LET config  == call.config
        sizeOk  == call.size <= config.max_file_size
        typeOk  == config.allowed_types = {} \/ call.mimetype \in config.allowed_types
        extOk   == \/ config.allowed_extensions = {}
                   \/ Lowered(call.extension) \in config.allowed_extensions
        verdict == result.value
    IN  /\ verdict.ok <=> (sizeOk /\ typeOk /\ extOk)
        /\ ~sizeOk => verdict = FileTooLarge(config.max_file_size, call.size)
        /\ (sizeOk /\ ~typeOk) => verdict = TypeNotAllowed(call.mimetype)
        /\ (sizeOk /\ typeOk /\ ~extOk) => verdict = ExtensionNotAllowed(call.extension)

\* Reached: a file that is too large, of a type and an extension that are
\* not allowed, has been answered FileTooLarge.
C18_Witness ==
  /\ result.fn = "validate"
  /\ call.config = [max_file_size |-> 1024, allowed_types |-> {"image/png"},
                     allowed_extensions |-> { <<"p", "n", "g">> }]
  /\ call.mimetype = "image/jpeg"
  /\ call.extension = <<"j", "p", "g">>
  /\ call.size = 2000
  /\ result.value = FileTooLarge(1024, 2000)

-----------------------------------------------------------------------------
(* C19: static files stay under the root                                   *)

\* The directory config.root names.
RootPlace(config) == Resolve(components(config.root))

\* place is the root directory or lies under it.
UnderRoot(place, config) ==
  /\ Len(RootPlace(config)) <= Len(place)
  /\ SubSeq(place, 1, Len(RootPlace(config))) = RootPlace(config)

\* The place the requested path leads to once the handler has trimmed it
\* and joined it to the root.
RequestedPlace ==
  Resolve(join(components(call.config.root),
               trim_start_matches(trim_start_char(call.path, "/"),
                                  <<"s", "t", "a", "t", "i", "c", "/">>)))

\* C19: the handler serves no file that lies outside config.root, and a
\* request whose path leads outside the root is answered 403 with no file.
C19_StaticConfinement ==
  result.fn = "static_handler" =>
    /\ result.value.status = 200 => UnderRoot(result.value.file, call.config)
    /\ ~UnderRoot(RequestedPlace, call.config) => result.value = Answer(403, NoEntry)

-----------------------------------------------------------------------------
(* C20: trailing slashes                                                   *)

EndsWithSlash(x) == Len(x) >= 1 /\ x[Len(x)] = "/"

\* C20: a path finds a handler only if the path and the handler's pattern
\* both end with a slash or both do not: a route registered as "/a" is not
\* found at "/a/" and a route registered as "/a/" is not found at "/a".
C20_TrailingSlashSignificant ==
  \A m \in Methods : \A q \in EdgeProbes :
    LET res == find_route(main, m, q)
    IN  /\ res.found => (EndsWithSlash(q) <=> EndsWithSlash(PatternOf(res.handler)))
        /\ \A h \in Held(main) :
             ( /\ registered[h].method = m
               /\ SegMatches(PatternOf(h), q)
               /\ OnlyMatch(main, m, h, q) )
               => res = Expected(h, q)

\* Reached: GET holds only "/a" and POST only "/a/": GET finds "/a" and not
\* "/a/", POST finds "/a/" and not "/a".
C20_Witness ==
  /\ PatternsIn(main, "GET") = { <<"/", "a">> }
  /\ PatternsIn(main, "POST") = { <<"/", "a", "/">> }
  /\ find_route(main, "GET", <<"/", "a">>).found
  /\ ~find_route(main, "GET", <<"/", "a", "/">>).found
  /\ find_route(main, "POST", <<"/", "a", "/">>).found
  /\ ~find_route(main, "POST", <<"/", "a">>).found

-----------------------------------------------------------------------------
(* C21: parameter names at one position                                    *)

\* The segments of a pattern with the name of every parameter left out.
Nameless(pattern) ==
  [n \in 1..Len(Split(pattern)) |->
     IF IsParam(Split(pattern)[n]) THEN <<":">> ELSE Split(pattern)[n]]

\* Patterns P and Q have, after the same preceding segments, a parameter
\* at the same position under two names.
NamesDiffer(P, Q) ==
  LET ps == Split(P)
      qs == Split(Q)
  IN  \E n \in 1..Len(ps) :
        /\ n <= Len(qs)
        /\ IsParam(ps[n]) /\ IsParam(qs[n])
        /\ ps[n] # qs[n]
        /\ \A k \in 1..(n - 1) : ps[k] = qs[k]

\* C21 as stated: no table holds two routes that name the parameter of one
\* position differently under the same preceding segments, and an
\* add_route whose pattern would do so with a route held is not inserted.
C21_OneNamePerPosition ==
  /\ \A m \in DOMAIN main.routes : \A e, f \in main.routes[m] :
       ~NamesDiffer(PatternOf(e.value), PatternOf(f.value))
  /\ lastOp.op = "add_route" =>
       LET m == registered[lastOp.first].method
       IN  (\E P \in PatternsIn(lastOp.main, m) :
              NamesDiffer(P, PatternOf(lastOp.first)))
             => lastOp.first \notin Held(main)

\* C21 amended: no table holds two routes whose patterns are the same once
\* the parameter names are left out; an add_route whose pattern is, names
\* left out, that of a route held is not inserted and changes no lookup;
\* routes that differ elsewhere may name the parameter of one position
\* differently, and every route found captures under its own names.
C21_OneRoutePerShape ==
  /\ \A m \in DOMAIN main.routes : \A e, f \in main.routes[m] :
       Nameless(PatternOf(e.value)) = Nameless(PatternOf(f.value)) => e = f
  /\ lastOp.op = "add_route" =>
       LET m == registered[lastOp.first].method
       IN  IF \E P \in PatternsIn(lastOp.main, m) :
                Nameless(P) = Nameless(PatternOf(lastOp.first))
           THEN /\ lastOp.first \notin Held(main)
                /\ \A q \in Probes :
                     find_route(main, m, q) = find_route(lastOp.main, m, q)
           ELSE lastOp.first \in Held(main)
  /\ \A m \in Methods : \A q \in Probes :
       LET res == find_route(main, m, q)
       IN  res.found =>
             /\ SegMatches(PatternOf(res.handler), q)
             /\ res = Expected(res.handler, q)

\* Reached: GET holds "/:i" and "/:j/b", which name the first segment
\* differently; a third add_route of GET "/:j" is not inserted; "/a" is
\* found with {i: "a"} and "/a/b" with {j: "a"}.
C21_Witness ==
  /\ lastOp.op = "add_route"
  /\ lastOp.first = 3
  /\ registered[3] = [method |-> "GET", full |-> <<"/", ":", "j">>]
  /\ lastOp.first \notin Held(main)
  /\ PatternsIn(main, "GET") = { <<"/", ":", "i">>, <<"/", ":", "j", "/", "b">> }
  /\ find_route(main, "GET", <<"/", "a">>)
       = Some(1, [name \in { <<"i">> } |-> <<"a">>])
  /\ find_route(main, "GET", <<"/", "a", "/", "b">>)
       = Some(2, [name \in { <<"j">> } |-> <<"a">>])

-----------------------------------------------------------------------------
(* C22: the window of a key begins again once it has elapsed                *)

\* The last check was made when at least the window had elapsed since the
\* window_start its key had.
Elapsed ==
  /\ lastCheck.key \in DOMAIN lastCheck.before
  /\ rate_config.window.over = 0
  /\ lastCheck.at - lastCheck.before[lastCheck.key].window_start
       >= rate_config.window.ticks

-----------------------------------------------------------------------------
(* C23: the numbers of the answers                                         *)

\* The whole seconds of a window, as [hi, lo] and not cut to 32 bits.
Seconds(window) ==
  [hi |-> window.over * 65536 + (window.ticks \div TicksPerSecond) \div 65536,
   lo |-> (window.ticks \div TicksPerSecond) % 65536]

\* w - e for a number of seconds w kept as [hi, lo] and e <= w below 2^16.
Minus(w, e) ==
  IF w.lo >= e THEN [w EXCEPT !.lo = @ - e]
  ELSE [hi |-> w.hi - 1, lo |-> w.lo + 65536 - e]

\* C23: every check returns; in an Allowed answer remaining is max_requests
\* less the number of checks of the key in its window, this one included,
\* and is not negative; in an Exceeded answer remaining is 0 and
\* retry_after is the window's seconds less the whole seconds elapsed since
\* window_start, between 0 and the window's seconds.
C23_RateLimitArithmetic ==
  lastCheck.key # "none" =>
    LET key     == lastCheck.key
        answer  == lastCheck.answer
        elapsed == (lastCheck.at - entries[key].window_start) \div TicksPerSecond
    IN  /\ answer.kind \in {"Allowed", "Exceeded"}
        /\ answer.kind = "Allowed" =>
             /\ checks[key].hi = 0
             /\ answer.remaining = rate_config.max_requests - checks[key].lo
             /\ answer.remaining >= 0
        /\ answer.kind = "Exceeded" =>
             /\ answer.remaining = 0
             /\ answer.retry_after = Minus(Seconds(rate_config.window), elapsed)
             /\ ~u32_gt(answer.retry_after, Seconds(rate_config.window))

-----------------------------------------------------------------------------
(* C24: what the rate_limiter middleware lets through                      *)

\* The path of the last request given to the middleware begins with an
\* entry of skip_paths.
Skipped ==
  \E p \in rate_config.skip_paths :
    \E n \in 0..Len(gate.path) : SubSeq(gate.path, 1, n) = p

\* C24: the middleware calls next exactly when the path begins with a
\* skip_paths entry or check(ip) answered Allowed; when check answered
\* Exceeded it answers 429 and does not call next; for a skipped request
\* check is not called and no entry changes; for any other request check
\* is called once, with the request's ip.
C24_MiddlewareGating ==
  gate.ip # "none" =>
    /\ gate.next <=> (Skipped \/ (gate.checked /\ gate.answer.kind = "Allowed"))
    /\ (gate.checked /\ gate.answer.kind = "Exceeded") =>
         gate.status = 429 /\ ~gate.next
    /\ Skipped => (~gate.checked /\ entries = gate.before)
    /\ ~Skipped =>
         /\ gate.checked
         /\ lastCheck.key = gate.ip
         /\ lastCheck.answer = gate.answer
         /\ \A k \in DOMAIN gate.before : k # gate.ip => entries[k] = gate.before[k]

\* Reached: with skip_paths = ["/a"] and max_requests = 1, a client whose
\* count has passed the limit requests "/ab": next is called, check is
\* not, and the client's entry is as it was.
C24_Witness ==
  /\ gate.ip = "k1"
  /\ gate.path = <<"/", "a", "b">>
  /\ rate_config.skip_paths = { <<"/", "a">> }
  /\ rate_config.max_requests = 1
  /\ "k1" \in DOMAIN gate.before
  /\ gate.before["k1"].count = u32(2)
  /\ lastCheck.answer.kind = "Exceeded"
  /\ gate.next
  /\ ~gate.checked
  /\ entries = gate.before

-----------------------------------------------------------------------------
(* C25: unregister takes the connection out of the rooms                   *)

\* conn_id is one of members.
Member(conn_id, members) == \E n \in 1..Len(members) : members[n] = conn_id

\* C25: when unregister(c) has returned, no other call having been made
\* meanwhile, c is not in the connection table and not a member of any room
\* of the server; the rooms are those there were, every other id is a
\* member of the rooms it was a member of, and every other connection is
\* registered as it was.
C25_UnregisterCleansRooms ==
  returned.op = "unregister" =>
    LET c == returned.conn_id
    IN  /\ c \notin connections
        /\ \A r \in DOMAIN rooms : ~Member(c, rooms[r])
        /\ connections = returned.connections \ {c}
        /\ DOMAIN rooms = DOMAIN returned.rooms
        /\ \A r \in DOMAIN rooms : \A o \in ConnectionIds \ {c} :
             Member(o, rooms[r]) <=> Member(o, returned.rooms[r])

\* Reached: "c1" and "c2" were registered, "c1" a member of "r1" before
\* "c2" and the only member of "r2"; unregister("c1") has returned, "r1"
\* holds "c2" alone and "r2" is empty.
C25_Witness ==
  /\ returned.op = "unregister"
  /\ returned.conn_id = "c1"
  /\ returned.connections = {"c1", "c2"}
  /\ DOMAIN returned.rooms = {"r1", "r2"}
  /\ returned.rooms["r1"] = <<"c1", "c2">>
  /\ returned.rooms["r2"] = <<"c1">>
  /\ connections = {"c2"}
  /\ rooms["r1"] = <<"c2">>
  /\ rooms["r2"] = <<>>

-----------------------------------------------------------------------------
(* C26: the calls do not wait on each other forever                        *)

\* C26: whenever calls are in progress, one of them can take its next
\* step: the lock it asks for is given to it, or it needs none.
C26_DeadlockFreedom ==
  (\E t \in WsThreads : ws[t].pc # "idle") =>
    \E t \in WsThreads : ws[t].pc # "idle" /\ ENABLED WsRun(t)

-----------------------------------------------------------------------------
(* C27: the members of the rooms are registered connections                *)

\* C27: whenever no call is in progress, every member of every room is in
\* the connection table.
C27_MembersRegistered ==
  (\A t \in WsThreads : ws[t].pc = "idle") =>
    \A r \in DOMAIN rooms : \A n \in 1..Len(rooms[r]) : rooms[r][n] \in connections

====
